---- MODULE Spec2Model ----
(***************************************************************************)
(* A model of the argcheck package: the check catalogue (checks.py), the   *)
(* annotation compiler and the per-call executor (impl.py) and the errors  *)
(* they raise (exceptions.py).                                             *)
(*                                                                         *)
(* Python values are records [ty, n, el, at]: ty is the name of the        *)
(* runtime type, n the numeric payload, el the sequence of elements of a   *)
(* container and at the set of attributes an instance carries on top of    *)
(* those of its type.                                                      *)
(***************************************************************************)
EXTENDS Integers, Sequences, FiniteSets, TLC

\* ------------------------------------------------------------------------
\* Bounds of the model.
\* ------------------------------------------------------------------------
MaxPos == 2
MaxKwd == 2
MaxLen == 3

\* ------------------------------------------------------------------------
\* Python values.
\* ------------------------------------------------------------------------
PyInt(i) == [ty |-> "int", n |-> i, el |-> <<>>, at |-> {}]
PyBool(b) == [ty |-> "bool", n |-> b, el |-> <<>>, at |-> {}]
PyStr(cs) == [ty |-> "str", n |-> 0, el |-> cs, at |-> {}]
PyList(es) == [ty |-> "list", n |-> 0, el |-> es, at |-> {}]
PyTuple(es) == [ty |-> "tuple", n |-> 0, el |-> es, at |-> {}]
MyClass(x) == [ty |-> "MyClass", n |-> x, el |-> <<>>, at |-> {}]
\* an object whose class sets the attributes attrs to None: hasattr finds
\* them, and len(), iteration and comparison raise TypeError
Duck(attrs) == [ty |-> "Duck", n |-> 0, el |-> <<>>, at |-> attrs]
PyNone == [ty |-> "NoneType", n |-> 0, el |-> <<>>, at |-> {}]

\* The seven attributes that isTypeOfSequence.is_valid looks for.
SequenceAttrs ==
    {"__getitem__", "__len__", "__contains__", "__iter__", "__reversed__",
     "index", "count"}

\* The attributes, among SequenceAttrs, that the builtin types define.
TypeAttrs(ty) ==
    CASE ty = "list" -> SequenceAttrs
      [] ty = "tuple" -> SequenceAttrs \ {"__reversed__"}
      [] ty = "str" -> SequenceAttrs \ {"__reversed__"}
      [] OTHER -> {}

\* hasattr(x, a)
hasattr(x, a) == a \in (TypeAttrs(x.ty) \cup x.at)

\* type(x).__mro__ : bool is a subclass of int.
Mro(ty) == IF ty = "bool" THEN {"bool", "int", "object"} ELSE {ty, "object"}

\* isinstance(x, T) for a class T
isinstance(x, T) == T \in Mro(x.ty)

\* len(x) is defined for the sized builtin types only.
HasLen(x) == x.ty \in {"list", "tuple", "str"}

\* iter(x): the elements a for-loop over x yields; a str yields its
\* one-character substrings.
Iterable(x) == x.ty \in {"list", "tuple", "str"}
Elems(x) ==
    IF x.ty = "str" THEN [i \in 1..Len(x.el) |-> PyStr(<<x.el[i]>>)] ELSE x.el

\* x > 0 is defined for numbers only.
IsNumber(x) == x.ty \in {"int", "bool"}

\* ------------------------------------------------------------------------
\* Comparison of Python values, as used by isMonotonicIncr and isPositive.
\* The result is "True", "False" or "TypeError".
\* ------------------------------------------------------------------------
RECURSIVE PyEq(_, _)
PyEq(a, b) ==
    IF IsNumber(a) /\ IsNumber(b) THEN a.n = b.n
    ELSE IF a.ty = b.ty /\ a.ty \in {"list", "tuple"}
    THEN /\ Len(a.el) = Len(b.el)
         /\ \A i \in 1..Len(a.el) : PyEq(a.el[i], b.el[i])
    ELSE a = b

RECURSIVE PyGt(_, _)
PyGt(a, b) ==
    LET Lex(k) ==
            \* the first index from k at which the two sequences differ
            LET diff == {i \in k..Len(a.el) :
                            i <= Len(b.el) /\ ~PyEq(a.el[i], b.el[i])}
            IN IF diff = {}
               THEN IF Len(a.el) > Len(b.el) THEN "True" ELSE "False"
               ELSE LET m == CHOOSE i \in diff : \A j \in diff : i <= j
                    IN PyGt(a.el[m], b.el[m])
        LexStr ==
            LET diff == {i \in 1..Len(a.el) :
                            i <= Len(b.el) /\ a.el[i] # b.el[i]}
            IN IF diff = {}
               THEN IF Len(a.el) > Len(b.el) THEN "True" ELSE "False"
               ELSE LET m == CHOOSE i \in diff : \A j \in diff : i <= j
                    IN IF a.el[m] > b.el[m] THEN "True" ELSE "False"
    IN IF IsNumber(a) /\ IsNumber(b)
       THEN IF a.n > b.n THEN "True" ELSE "False"
       ELSE IF a.ty = "str" /\ b.ty = "str" THEN LexStr
       ELSE IF a.ty = b.ty /\ a.ty \in {"list", "tuple"} THEN Lex(1)
       ELSE "TypeError"

\* x[lo:hi] on 0-based half-open bounds, for a list, tuple or str
Slice(x, lo, hi) == [x EXCEPT !.el = SubSeq(x.el, lo + 1, hi)]

\* ------------------------------------------------------------------------
\* Annotations (PEP-484 / PEP-593 type hints) and metadata items.
\* ------------------------------------------------------------------------
NoAnnot == [k |-> "empty"]
Class(name) == [k |-> "class", name |-> name]
SequenceOf(a) == [k |-> "Sequence", args |-> <<a>>]
\* typing.Sequence without a subscript: it has __origin__ and no __args__
BareSequence == [k |-> "BareSequence"]
Annotated(origin, metadata) ==
    [k |-> "Annotated", origin |-> origin, metadata |-> metadata]
\* an annotation that is none of the above, e.g. the string 'int'
StrAnnot(s) == [k |-> "str", name |-> s]

\* ------------------------------------------------------------------------
\* The check catalogue (checks.py).
\* ------------------------------------------------------------------------
isTypeEqualTo(type_declared) ==
    [c |-> "isTypeEqualTo", type_declared |-> type_declared]
isTypeOfSequence(type_declared) ==
    [c |-> "isTypeOfSequence", type_declared |-> type_declared]
isNotEmpty == [c |-> "isNotEmpty"]
isMonotonicIncr == [c |-> "isMonotonicIncr"]
isPositive == [c |-> "isPositive"]
eachAll(check_applied_to_each) ==
    [c |-> "eachAll", check_applied_to_each |-> check_applied_to_each]

TypeCheckKinds == {"isTypeEqualTo", "isTypeOfSequence"}
ValueCheckKinds == {"isNotEmpty", "isMonotonicIncr", "isPositive", "eachAll"}

\* The outcomes of is_valid: True, False, a dict of extra context, or a
\* raised _InternalExecutionError.
RetTrue == [r |-> "True"]
RetFalse == [r |-> "False"]
RetDict(idx, elem) ==
    [r |-> "dict", idx_within_sequence |-> idx, value_within_sequence |-> elem]
_InternalExecutionError(operation_that_failed, value_that_caused_failure) ==
    [r |-> "_InternalExecutionError",
     operation_that_failed |-> operation_that_failed,
     value_that_caused_failure |-> value_that_caused_failure]

RetBool(b) == IF b THEN RetTrue ELSE RetFalse

isTypeEqualTo_is_valid(self, x) ==
    RetBool(isinstance(x, self.type_declared.name))

\* isTypeOfSequence_is_valid_no_reversed does not ask for __reversed__.
isTypeOfSequence_is_valid_no_reversed(self, x) ==
    RetBool(/\ hasattr(x, "__getitem__") /\ hasattr(x, "__len__")
            /\ hasattr(x, "__contains__") /\ hasattr(x, "__iter__")
            /\ hasattr(x, "index") /\ hasattr(x, "count"))

isTypeOfSequence_is_valid(self, x) ==
    RetBool(/\ hasattr(x, "__getitem__") /\ hasattr(x, "__len__")
            /\ hasattr(x, "__contains__") /\ hasattr(x, "__iter__")
            /\ hasattr(x, "__reversed__")
            /\ hasattr(x, "index") /\ hasattr(x, "count"))

\* isNotEmpty_is_valid_no_len_is_false takes a value without a length for an
\* empty one.
isNotEmpty_is_valid_no_len_is_false(self, x) ==
    IF HasLen(x) THEN RetBool(Len(x.el) > 0) ELSE RetFalse

isNotEmpty_is_valid(self, x) ==
    IF HasLen(x) THEN RetBool(Len(x.el) > 0)
    ELSE _InternalExecutionError("len(x)", x)

isMonotonicIncr_is_valid(self, x) ==
    IF ~HasLen(x) THEN _InternalExecutionError("len(x)", x)
    ELSE LET num_elems == Len(x.el)
             cmp(i) == PyGt(Slice(x, i + 1, num_elems),
                            Slice(x, i, num_elems - 1))
             \* all(...) stops at the first comparison that is not True
             stop == {i \in 0..(num_elems - 2) : cmp(i) # "True"}
         IN IF num_elems <= 1 THEN RetTrue
            ELSE IF stop = {} THEN RetTrue
            ELSE LET i == CHOOSE i \in stop : \A j \in stop : i <= j
                 IN IF cmp(i) = "TypeError"
                    THEN _InternalExecutionError("x[i+1] > x[i]", x)
                    ELSE RetFalse

\* isPositive_is_valid_non_negative tests x >= 0.
isPositive_is_valid_non_negative(self, x) ==
    IF IsNumber(x) THEN RetBool(x.n >= 0)
    ELSE _InternalExecutionError("x > 0", x)

isPositive_is_valid(self, x) ==
    IF IsNumber(x) THEN RetBool(x.n > 0)
    ELSE _InternalExecutionError("x > 0", x)

RECURSIVE is_valid(_, _)
\* eachAll_is_valid_last_failure goes through every element and reports the
\* last one that failed.
eachAll_is_valid_last_failure(self, x) ==
    LET check_applied_to_each == self.check_applied_to_each
        elems == Elems(x)
        res(i) == is_valid(check_applied_to_each, elems[i])
        stop == {i \in 1..Len(elems) :
                    res(i).r \in {"False", "_InternalExecutionError"}}
    IN IF ~Iterable(x) THEN _InternalExecutionError("for elem in x", x)
       ELSE IF stop = {} THEN RetTrue
       ELSE LET i == CHOOSE i \in stop : \A j \in stop : i >= j
            IN IF res(i).r = "False" THEN RetDict(i - 1, elems[i])
               ELSE res(i)

eachAll_is_valid(self, x) ==
    LET check_applied_to_each == self.check_applied_to_each
        elems == Elems(x)
        res(i) == is_valid(check_applied_to_each, elems[i])
        \* the loop leaves at the first element whose result is falsy or
        \* whose check raises; a dict result is truthy
        stop == {i \in 1..Len(elems) :
                    res(i).r \in {"False", "_InternalExecutionError"}}
    IN IF ~Iterable(x) THEN _InternalExecutionError("for elem in x", x)
       ELSE IF stop = {} THEN RetTrue
       ELSE LET i == CHOOSE i \in stop : \A j \in stop : i <= j
            IN IF res(i).r = "False" THEN RetDict(i - 1, elems[i])
               ELSE res(i)

is_valid(check, x) ==
    CASE check.c = "isTypeEqualTo" -> isTypeEqualTo_is_valid(check, x)
      [] check.c = "isTypeOfSequence" -> isTypeOfSequence_is_valid(check, x)
      [] check.c = "isNotEmpty" -> isNotEmpty_is_valid(check, x)
      [] check.c = "isMonotonicIncr" -> isMonotonicIncr_is_valid(check, x)
      [] check.c = "isPositive" -> isPositive_is_valid(check, x)
      [] check.c = "eachAll" -> eachAll_is_valid(check, x)

\* ------------------------------------------------------------------------
\* Descriptors and errors (impl.py, exceptions.py).
\* ------------------------------------------------------------------------
_DeclFuncParam(idx, name) == [idx |-> idx, name |-> name]
\* idx_or_kwd is a positional index or a keyword
Idx(i) == [idx |-> i]
Kwd(k) == [kwd |-> k]
_FuncCallArg(idx_or_kwd, val) == [idx_or_kwd |-> idx_or_kwd, val |-> val]

\* AnnotationCompilationError_first_param gives every parameter the ordinal
\* of the first.
AnnotationCompilationError_first_param(param, annotation, problem) ==
    [kind |-> "AnnotationCompilationError",
     param |-> [param EXCEPT !.idx = 0],
     annotation |-> annotation, problem |-> problem]

AnnotationCompilationError(param, annotation, problem) ==
    [kind |-> "AnnotationCompilationError", param |-> param,
     annotation |-> annotation, problem |-> problem]
\* CallArgBindingRejection_no_args loses the diagnostic of the binder.
CallArgBindingRejection_no_args(exception_args) ==
    [kind |-> "CallArgBindingRejection", exception_args |-> <<>>]

CallArgBindingRejection(exception_args) ==
    [kind |-> "CallArgBindingRejection", exception_args |-> exception_args]
CallArgCheckExecutionError(param, arg_that_caused_failure, during_check, operation_that_failed, value_that_caused_failure) ==
    [kind |-> "CallArgCheckExecutionError", param |-> param,
     arg_that_caused_failure |-> arg_that_caused_failure,
     during_check |-> during_check,
     operation_that_failed |-> operation_that_failed,
     value_that_caused_failure |-> value_that_caused_failure]
CallArgTypeCheckViolation(param, arg_that_caused_failure, check_that_failed, type_declared, type_received) ==
    [kind |-> "CallArgTypeCheckViolation", param |-> param,
     arg_that_caused_failure |-> arg_that_caused_failure,
     check_that_failed |-> check_that_failed,
     type_declared |-> type_declared, type_received |-> type_received]
CallArgValueCheckViolation(param, arg_that_caused_failure, check_that_failed) ==
    [kind |-> "CallArgValueCheckViolation", param |-> param,
     arg_that_caused_failure |-> arg_that_caused_failure,
     check_that_failed |-> check_that_failed]
CallArgEachCheckViolation(param, arg_that_caused_failure, check_that_failed, idx_within_sequence, value_within_sequence) ==
    [kind |-> "CallArgEachCheckViolation", param |-> param,
     arg_that_caused_failure |-> arg_that_caused_failure,
     check_that_failed |-> check_that_failed,
     idx_within_sequence |-> idx_within_sequence,
     value_within_sequence |-> value_within_sequence]

ViolationKinds ==
    {"CallArgTypeCheckViolation", "CallArgValueCheckViolation",
     "CallArgEachCheckViolation"}

\* to_raise_on_failed_check_inner_kind lets an each-check over a type check
\* raise the violation of the type check.
to_raise_on_failed_check_inner_kind(check, param, arg, context_dict) ==
    IF check.c \in TypeCheckKinds
    THEN CallArgTypeCheckViolation(param, arg, check,
                                   check.type_declared, arg.val.ty)
    ELSE IF check.c = "eachAll"
            /\ check.check_applied_to_each.c \in TypeCheckKinds
    THEN CallArgTypeCheckViolation(
             param, arg, check,
             check.check_applied_to_each.type_declared, arg.val.ty)
    ELSE IF check.c = "eachAll"
    THEN CallArgEachCheckViolation(param, arg, check,
                                   context_dict.idx_within_sequence,
                                   context_dict.value_within_sequence)
    ELSE CallArgValueCheckViolation(param, arg, check)

\* check.to_raise_on_failed_check(param, arg, **context_dict)
to_raise_on_failed_check(check, param, arg, context_dict) ==
    IF check.c \in TypeCheckKinds
    THEN CallArgTypeCheckViolation(param, arg, check,
                                   check.type_declared, arg.val.ty)
    ELSE IF check.c = "eachAll"
    THEN CallArgEachCheckViolation(param, arg, check,
                                   context_dict.idx_within_sequence,
                                   context_dict.value_within_sequence)
    ELSE CallArgValueCheckViolation(param, arg, check)

\* ------------------------------------------------------------------------
\* The annotation compiler (impl.py).  The result of a compilation is
\* [ok |-> TRUE, checks |-> <<...>>] or [ok |-> FALSE, err |-> error].
\* ------------------------------------------------------------------------
Compiled(checks) == [ok |-> TRUE, checks |-> checks]
Raised(err) == [ok |-> FALSE, err |-> err]

\* A metadata item is a check instance, a class, a nested list or tuple
\* MetaList(items), or any other Python value.
MetaList(items) == [k |-> "list", items |-> items]
IsCheckInstance(m) == "c" \in DOMAIN m
IsClassObject(m) == "k" \in DOMAIN m /\ m.k = "class"
IsListOrTuple(m) == "k" \in DOMAIN m /\ m.k = "list"

RECURSIVE _eval_metadata_tuple(_, _, _, _)
\* _eval_one_metadata_value_first_only keeps the first check of a nested
\* list or tuple and drops the others.
_eval_one_metadata_value_first_only(func_name, param_idx, param_name, one_metadata_value) ==
    IF IsListOrTuple(one_metadata_value)
    THEN LET r == _eval_metadata_tuple(func_name, param_idx, param_name,
                                       one_metadata_value.items)
         IN IF r.ok /\ r.checks # <<>> THEN Compiled(<<r.checks[1]>>) ELSE r
    ELSE IF IsCheckInstance(one_metadata_value)
            /\ one_metadata_value.c \in ValueCheckKinds
    THEN Compiled(<<one_metadata_value>>)
    ELSE IF IsClassObject(one_metadata_value)
            /\ one_metadata_value.name \in ValueCheckKinds \ {"eachAll"}
    THEN Compiled(<<[c |-> one_metadata_value.name]>>)
    ELSE Raised(AnnotationCompilationError(
                    _DeclFuncParam(param_idx, param_name),
                    one_metadata_value,
                    "expected a value-check instance"))

_eval_one_metadata_value(func_name, param_idx, param_name, one_metadata_value) ==
    IF IsListOrTuple(one_metadata_value)
    THEN _eval_metadata_tuple(func_name, param_idx, param_name,
                              one_metadata_value.items)
    ELSE IF IsCheckInstance(one_metadata_value)
            /\ one_metadata_value.c \in ValueCheckKinds
    THEN Compiled(<<one_metadata_value>>)
    ELSE IF IsClassObject(one_metadata_value)
    THEN IF one_metadata_value.name \in ValueCheckKinds \ {"eachAll"}
         THEN Compiled(<<[c |-> one_metadata_value.name]>>)
         ELSE IF one_metadata_value.name = "eachAll"
         \* eachAll() lacks its required constructor argument
         THEN Raised([kind |-> "TypeError"])
         ELSE Raised(AnnotationCompilationError(
                        _DeclFuncParam(param_idx, param_name),
                        one_metadata_value,
                        "expected a value-check class"))
    ELSE Raised(AnnotationCompilationError(
                    _DeclFuncParam(param_idx, param_name),
                    one_metadata_value,
                    "expected a value-check instance"))

_eval_metadata_tuple(func_name, param_idx, param_name, metadata_tuple) ==
    IF metadata_tuple = <<>> THEN Compiled(<<>>)
    ELSE LET one_metadata_to_check ==
                 _eval_one_metadata_value(func_name, param_idx, param_name,
                                          Head(metadata_tuple))
             rest == _eval_metadata_tuple(func_name, param_idx, param_name,
                                          Tail(metadata_tuple))
         IN IF ~one_metadata_to_check.ok THEN one_metadata_to_check
            ELSE IF ~rest.ok THEN rest
            ELSE Compiled(one_metadata_to_check.checks \o rest.checks)

\* Which of the checks compiled for the nested type of Sequence[...] is
\* wrapped in the eachAll: check_for_nested_type[0].
NestedChecksToWrap(check_for_nested_type) == check_for_nested_type[1]

\* SequenceChecks_each_first puts the check of the elements first.
SequenceChecks_each_first(annot, check_for_nested_type) ==
    <<eachAll(NestedChecksToWrap(check_for_nested_type)),
      isTypeOfSequence(annot)>>

\* The checks that Sequence[...] compiles to.
SequenceChecks(annot, check_for_nested_type) ==
    <<isTypeOfSequence(annot),
      eachAll(NestedChecksToWrap(check_for_nested_type))>>

RECURSIVE _eval_PEP_484_param_annot(_, _, _, _)
_eval_PEP_484_param_annot(func_name, param_idx, param_name, annot) ==
    IF annot.k = "Annotated"
    THEN LET type_to_check ==
                 _eval_PEP_484_param_annot(func_name, param_idx, param_name,
                                           annot.origin)
             metadata_to_check ==
                 _eval_metadata_tuple(func_name, param_idx, param_name,
                                      annot.metadata)
         IN IF ~type_to_check.ok THEN type_to_check
            ELSE IF ~metadata_to_check.ok THEN metadata_to_check
            ELSE Compiled(type_to_check.checks \o metadata_to_check.checks)
    ELSE IF annot.k = "Sequence"
    THEN LET check_for_nested_type ==
                 _eval_PEP_484_param_annot(func_name, param_idx, param_name,
                                           annot.args[1])
         IN IF ~check_for_nested_type.ok THEN check_for_nested_type
            ELSE Compiled(SequenceChecks(annot,
                                         check_for_nested_type.checks))
    ELSE IF annot.k = "BareSequence"
    \* assert hasattr(annot, "__args__")
    THEN Raised([kind |-> "AssertionError"])
    ELSE IF annot.k = "class"
    THEN Compiled(<<isTypeEqualTo(annot)>>)
    ELSE Raised(AnnotationCompilationError(
                    _DeclFuncParam(param_idx, param_name),
                    annot,
                    "unrecognised PEP-484 / PEP-593 type-hint annotation"))

\* ------------------------------------------------------------------------
\* Declared parameters and the binding of call arguments to them
\* (inspect.Signature.bind and BoundArguments.apply_defaults, as called by
\* check_args_one_call).
\* ------------------------------------------------------------------------
POSITIONAL_ONLY == "POSITIONAL_ONLY"
POSITIONAL_OR_KEYWORD == "POSITIONAL_OR_KEYWORD"
VAR_POSITIONAL == "VAR_POSITIONAL"
KEYWORD_ONLY == "KEYWORD_ONLY"
VAR_KEYWORD == "VAR_KEYWORD"

_empty == [has |-> FALSE, val |-> PyNone]
Default(v) == [has |-> TRUE, val |-> v]
Parameter(name, kind, default, annotation) ==
    [name |-> name, kind |-> kind, default |-> default,
     annotation |-> annotation]

\* A keyword argument; the keyword arguments of a call are a sequence of
\* these with distinct keywords, in the order written at the call site.
KwArg(kw, val) == [kw |-> kw, val |-> val]
InKwargs(name, kwargs) == \E i \in 1..Len(kwargs) : kwargs[i].kw = name
KwargsGet(name, kwargs) ==
    kwargs[CHOOSE i \in 1..Len(kwargs) : kwargs[i].kw = name].val
KwargsPop(name, kwargs) == SelectSeq(kwargs, LAMBDA a : a.kw # name)

TypeError(msg, arg) == [ok |-> FALSE, args |-> <<[msg |-> msg, arg |-> arg]>>]
Bound(arguments) == [ok |-> TRUE, arguments |-> arguments]

\* The second loop of Signature._bind: the parameters from rest_from on
\* take their values from the keyword arguments.
RECURSIVE BindKeywords(_, _, _, _, _)
BindKeywords(parameters, kwargs, j, arguments, kwargs_param) ==
    IF j > Len(parameters)
    THEN IF kwargs # <<>>
         THEN IF kwargs_param # ""
              THEN Bound(arguments @@ (kwargs_param :> kwargs))
              ELSE TypeError("got an unexpected keyword argument",
                             kwargs[1].kw)
         ELSE Bound(arguments)
    ELSE LET param == parameters[j]
         IN IF param.kind = VAR_KEYWORD
            THEN BindKeywords(parameters, kwargs, j + 1, arguments,
                              param.name)
            ELSE IF param.kind = VAR_POSITIONAL
            THEN BindKeywords(parameters, kwargs, j + 1, arguments,
                              kwargs_param)
            ELSE IF ~InKwargs(param.name, kwargs)
            THEN IF ~param.default.has
                 THEN TypeError("missing a required argument", param.name)
                 ELSE BindKeywords(parameters, kwargs, j + 1, arguments,
                                   kwargs_param)
            ELSE IF param.kind = POSITIONAL_ONLY
            THEN TypeError("parameter is positional only, but was passed as a keyword",
                           param.name)
            ELSE BindKeywords(parameters, KwargsPop(param.name, kwargs),
                              j + 1,
                              arguments @@
                                (param.name :> KwargsGet(param.name, kwargs)),
                              kwargs_param)

\* The first loop of Signature._bind: positional argument i goes to
\* parameter i.
RECURSIVE BindPositional(_, _, _, _, _)
BindPositional(parameters, args, kwargs, i, arguments) ==
    IF i > Len(args)
    THEN IF i > Len(parameters)
         THEN BindKeywords(parameters, kwargs, i, arguments, "")
         ELSE LET param == parameters[i]
              IN IF param.kind = VAR_POSITIONAL
                 THEN BindKeywords(parameters, kwargs, i + 1, arguments, "")
                 ELSE IF InKwargs(param.name, kwargs)
                 THEN IF param.kind = POSITIONAL_ONLY
                      THEN TypeError("parameter is positional only, but was passed as a keyword",
                                     param.name)
                      ELSE BindKeywords(parameters, kwargs, i, arguments, "")
                 ELSE IF param.kind = VAR_KEYWORD \/ param.default.has
                 THEN BindKeywords(parameters, kwargs, i, arguments, "")
                 ELSE TypeError("missing a required argument", param.name)
    ELSE IF i > Len(parameters)
    THEN TypeError("too many positional arguments", "")
    ELSE LET param == parameters[i]
         IN IF param.kind \in {VAR_KEYWORD, KEYWORD_ONLY}
            THEN TypeError("too many positional arguments", "")
            ELSE IF param.kind = VAR_POSITIONAL
            THEN BindKeywords(parameters, kwargs, i + 1,
                              arguments @@
                                (param.name :> SubSeq(args, i, Len(args))),
                              "")
            ELSE IF InKwargs(param.name, kwargs)
                    /\ param.kind # POSITIONAL_ONLY
            THEN TypeError("multiple values for argument", param.name)
            ELSE BindPositional(parameters, args, kwargs, i + 1,
                                arguments @@ (param.name :> args[i]))

\* an empty dict of arguments
NoArguments == [name \in {} |-> PyNone]

Signature_bind(parameters, args, kwargs) ==
    BindPositional(parameters, args, kwargs, 1, NoArguments)

\* apply_defaults_overrides lets a declared default replace the argument.
apply_defaults_overrides(parameters, arguments) ==
    [name \in {parameters[i].name : i \in 1..Len(parameters)} |->
        LET param == parameters[CHOOSE i \in 1..Len(parameters) :
                                    parameters[i].name = name]
        IN IF param.default.has THEN param.default.val
           ELSE IF name \in DOMAIN arguments THEN arguments[name]
           ELSE <<>>]

\* BoundArguments.apply_defaults
apply_defaults(parameters, arguments) ==
    [name \in {parameters[i].name : i \in 1..Len(parameters)} |->
        LET param == parameters[CHOOSE i \in 1..Len(parameters) :
                                    parameters[i].name = name]
        IN IF name \in DOMAIN arguments THEN arguments[name]
           ELSE IF param.default.has THEN param.default.val
           ELSE <<>>]

\* ------------------------------------------------------------------------
\* The decorated functions: those of tests/test_argcheck.py and a few more
\* that exercise nested annotations and variadic parameters.
\* ------------------------------------------------------------------------
Func(name, parameters) == [name |-> name, parameters |-> parameters]
Plain(name, annotation) ==
    Parameter(name, POSITIONAL_OR_KEYWORD, _empty, annotation)
Hello == PyStr(<<8, 5, 12, 12, 15>>)

deco_0_params_no_annots == Func("deco_0_params_no_annots", <<>>)
deco_1_params_no_annots ==
    Func("deco_1_params_no_annots", <<Plain("p", NoAnnot)>>)
deco_2_params_no_annots ==
    Func("deco_2_params_no_annots",
         <<Plain("p_1", NoAnnot), Plain("p_2", NoAnnot)>>)
deco_2_params_annot_1_int ==
    Func("deco_2_params_annot_1_int",
         <<Plain("p_1", Class("int")), Plain("p_2", NoAnnot)>>)
deco_2_params_annot_2_int ==
    Func("deco_2_params_annot_2_int",
         <<Plain("p_1", NoAnnot), Plain("p_2", Class("int"))>>)
deco_1_params_annot_int_dflt_int ==
    Func("deco_1_params_annot_int_dflt_int",
         <<Parameter("p", POSITIONAL_OR_KEYWORD, Default(PyInt(33)),
                     Class("int"))>>)
deco_1_params_annot_int_dflt_str ==
    Func("deco_1_params_annot_int_dflt_str",
         <<Parameter("p", POSITIONAL_OR_KEYWORD, Default(Hello),
                     Class("int"))>>)
deco_1_params_annot_MyClass ==
    Func("deco_1_params_annot_MyClass", <<Plain("p", Class("MyClass"))>>)
deco_1_params_annot_int ==
    Func("deco_1_params_annot_int", <<Plain("p", Class("int"))>>)
deco_1_params_annot_Sequence ==
    Func("deco_1_params_annot_Sequence", <<Plain("p", BareSequence)>>)
deco_1_params_annot_Sequence_int ==
    Func("deco_1_params_annot_Sequence_int",
         <<Plain("p", SequenceOf(Class("int")))>>)
deco_1_params_annot_int_isPositive ==
    Func("deco_1_params_annot_int_isPositive",
         <<Plain("p", Annotated(Class("int"), <<Class("isPositive")>>))>>)
\* def f(p: Sequence[Annotated[int, isPositive]])
deco_Sequence_of_Annotated ==
    Func("deco_Sequence_of_Annotated",
         <<Plain("p", SequenceOf(Annotated(Class("int"),
                                           <<Class("isPositive")>>)))>>)
\* def f(p: Sequence[Sequence[int]])
deco_Sequence_of_Sequence ==
    Func("deco_Sequence_of_Sequence",
         <<Plain("p", SequenceOf(SequenceOf(Class("int"))))>>)
\* def f(p: 'int')
deco_unrecognised_annot ==
    Func("deco_unrecognised_annot", <<Plain("p", StrAnnot("int"))>>)
\* def f(p_1: int, p_2: 'int')
deco_2_params_unrecognised_annot ==
    Func("deco_2_params_unrecognised_annot",
         <<Plain("p_1", Class("int")), Plain("p_2", StrAnnot("int"))>>)
\* def f(p: Annotated[object, m]) for a metadata item m: every value passes
\* the type check and reaches the value check
deco_1_params_annot_object(m) ==
    Func("deco_1_params_annot_object",
         <<Plain("p", Annotated(Class("object"), <<m>>))>>)
\* def f(p_1: Annotated[int, isPositive], p_2: int = "hello")
deco_2_params_both_annot ==
    Func("deco_2_params_both_annot",
         <<Plain("p_1", Annotated(Class("int"), <<isPositive>>)),
           Parameter("p_2", POSITIONAL_OR_KEYWORD, Default(Hello),
                     Class("int"))>>)
\* def f(*args: Annotated[int, isPositive], **kw: int)
deco_variadic ==
    Func("deco_variadic",
         <<Parameter("args", VAR_POSITIONAL, _empty,
                     Annotated(Class("int"), <<isPositive>>)),
           Parameter("kw", VAR_KEYWORD, _empty, Class("int"))>>)
\* def f(p, /, *, k: int = 1)
deco_posonly_kwonly ==
    Func("deco_posonly_kwonly",
         <<Parameter("p", POSITIONAL_ONLY, _empty, NoAnnot),
           Parameter("k", KEYWORD_ONLY, Default(PyInt(1)), Class("int"))>>)
\* def f(p: int, /, **kw: int)
deco_posonly_var_keyword ==
    Func("deco_posonly_var_keyword",
         <<Parameter("p", POSITIONAL_ONLY, _empty, Class("int")),
           Parameter("kw", VAR_KEYWORD, _empty, Class("int"))>>)

Funcs ==
    {deco_0_params_no_annots, deco_1_params_no_annots,
     deco_2_params_no_annots, deco_2_params_annot_1_int,
     deco_2_params_annot_2_int, deco_1_params_annot_int_dflt_int,
     deco_1_params_annot_int_dflt_str, deco_1_params_annot_MyClass,
     deco_1_params_annot_int, deco_1_params_annot_Sequence_int,
     deco_1_params_annot_int_isPositive, deco_Sequence_of_Annotated,
     deco_Sequence_of_Sequence, deco_unrecognised_annot,
     deco_2_params_both_annot, deco_variadic, deco_posonly_kwonly,
     deco_1_params_annot_Sequence, deco_2_params_unrecognised_annot,
     deco_posonly_var_keyword}

\* The argument values of the calls.
CallValues ==
    {PyInt(1), PyInt(0), Hello, PyList(<<PyInt(1)>>),
     PyList(<<PyInt(1), Hello>>)}

ParamNames(func) ==
    {func.parameters[i].name : i \in 1..Len(func.parameters)}
\* The keywords of the calls: the names of the parameters and a keyword
\* that no function declares.
Keywords(func) == ParamNames(func) \cup {"undeclared_kwd"}

PosArgs == UNION {[1..n -> CallValues] : n \in 0..MaxPos}
KwdArgs(func) ==
    UNION {{[i \in 1..n |-> KwArg(ks[i], vs[i])] :
                ks \in {s \in [1..n -> Keywords(func)] :
                            \A i, j \in 1..n : i # j => s[i] # s[j]},
                vs \in [1..n -> CallValues]} : n \in 0..MaxKwd}

\* The body of every function of the tests: it returns the argument of
\* its first parameter, or None when it declares no parameter.
FuncBody(func, args, kwargs) ==
    IF func.parameters = <<>> THEN PyNone
    ELSE LET first == func.parameters[1]
             b == Signature_bind(func.parameters, args, kwargs)
             bound == apply_defaults(func.parameters,
                                     b.arguments)[first.name]
         IN IF ~b.ok THEN PyNone
            ELSE IF first.kind = VAR_POSITIONAL THEN PyTuple(bound)
            ELSE bound

\* ------------------------------------------------------------------------
\* The state: one decorated function, its compiled checks, and the call in
\* progress.
\* ------------------------------------------------------------------------
VARIABLES
    func,                     \* the function under the decorator
    pc,                       \* "import", "idle", "bind", "check",
                              \* "returned", "raised", "reg_failed"
    arg_checks_for_one_decl,  \* the (decl_param, arg_checks) pairs
    reg_error,                \* the error raised by validate_call, if any
    supplied,                 \* the arguments the caller wrote
    pos_args,                 \* the wrapper's *pos_args
    kwd_args,                 \* the wrapper's **kwd_args
    bound_arguments,          \* bound_args.arguments after apply_defaults
    todo,                     \* the check evaluations still ahead, in order
    evaluated,                \* the check evaluations made, in order
    raised,                   \* the error the call raised, if any
    received,                 \* the invocations of the wrapped function
    ret,                      \* the value the wrapper returned
    cat_check,                \* a check of the catalogue, on its own
    cat_x,                    \* the value it is evaluated on
    cat_result,               \* what is_valid returned or raised
    cat_error,                \* what to_raise_on_failed_check built
    ctor_arg,                 \* the argument of a construction eachAll(...)
    ctor_location,            \* the file and line of that construction
    ctor_result,              \* the instance built, or the error raised
    exc_raised,               \* the class of an exception an except meets
    exc_handler,              \* the class that except clause names
    exc_caught,               \* whether the clause caught the exception
    namespace,                \* the names bound in the package argcheck
    import_error,             \* the error raised by import argcheck, if any
    import_pos,               \* the import statement and name to run next
    wanted,                   \* the names a client looks up in the package
    tables,                   \* the compiled checks of each wrapper
    threads,                  \* the frames of the calls running at once
    remembered                \* an earlier call and its outcome

vars ==
    <<func, pc, arg_checks_for_one_decl, reg_error, supplied, pos_args,
      kwd_args, bound_arguments, todo, evaluated, raised, received, ret,
      cat_check, cat_x, cat_result, cat_error, ctor_arg, ctor_location,
      ctor_result, exc_raised, exc_handler, exc_caught, namespace,
      import_error, import_pos, wanted, tables, threads, remembered>>

cat_vars == <<cat_check, cat_x, cat_result, cat_error>>
ctor_vars == <<ctor_arg, ctor_location, ctor_result>>
exc_vars == <<exc_raised, exc_handler, exc_caught>>
import_vars == <<namespace, import_error, import_pos, wanted>>
thread_vars == <<tables, threads>>
call_vars ==
    <<func, pc, arg_checks_for_one_decl, reg_error, supplied, pos_args,
      kwd_args, bound_arguments, todo, evaluated, raised, received, ret>>

NoError == [kind |-> "none"]
NoResult == [r |-> "none"]
NoCall == [pos |-> <<>>, kwd |-> <<>>]

_DeclParamArgChecksPair(decl_param, arg_checks) ==
    [decl_param |-> decl_param, arg_checks |-> arg_checks]

\* CompileParam_no_empty_test compiles Parameter.empty, which is a class,
\* like any other annotation.
CompileParam_no_empty_test(f, i) ==
    LET param == f.parameters[i]
    IN _eval_PEP_484_param_annot(f.name, i - 1, param.name,
                                 IF param.annotation = NoAnnot
                                 THEN Class("_empty") ELSE param.annotation)

\* _ArgChecksForOneFuncDecl.__init__: the compilation of every annotation,
\* in the order of declaration; an unannotated parameter gets ().
CompileParam(f, i) ==
    LET param == f.parameters[i]
    IN IF param.annotation # NoAnnot
       THEN _eval_PEP_484_param_annot(f.name, i - 1, param.name,
                                      param.annotation)
       ELSE Compiled(<<>>)

_ArgChecksForOneFuncDecl(f) ==
    LET n == Len(f.parameters)
        failed == {i \in 1..n : ~CompileParam(f, i).ok}
    IN IF failed = {}
       THEN Compiled([i \in 1..n |->
                        _DeclParamArgChecksPair(f.parameters[i],
                                                CompileParam(f, i).checks)])
       ELSE CompileParam(f, CHOOSE i \in failed : \A j \in failed : i <= j)

\* ArgsOfParam_whole_collection hands the tuple of *args, or the values of
\* **kwargs as one tuple, to the checks as a single argument.
ArgsOfParam_whole_collection(param_idx, decl_param, bound_arg, kwds) ==
    <<[param_idx |-> param_idx, decl_param |-> decl_param,
       val_idx |-> 0,
       arg_kwd |-> IF InKwargs(decl_param.name, kwds)
                   THEN Kwd(decl_param.name) ELSE PyNone,
       bound_arg |-> IF decl_param.kind = VAR_KEYWORD
                     THEN PyTuple([i \in 1..Len(bound_arg) |->
                                      bound_arg[i].val])
                     ELSE IF decl_param.kind = VAR_POSITIONAL
                     THEN PyTuple(bound_arg)
                     ELSE bound_arg]>>

\* The calls of _check_one_param_one_arg that check_args_one_call makes for
\* one parameter: one per collected value of a variadic parameter, else one.
\* val_idx counts the values of the parameter, for the record of the
\* evaluations only.
ArgsOfParam(param_idx, decl_param, bound_arg, kwds) ==
    IF decl_param.kind = VAR_KEYWORD
    THEN [i \in 1..Len(bound_arg) |->
            [param_idx |-> param_idx, decl_param |-> decl_param,
             val_idx |-> i - 1,
             arg_kwd |-> Kwd(bound_arg[i].kw), bound_arg |-> bound_arg[i].val]]
    ELSE IF decl_param.kind = VAR_POSITIONAL
    THEN [i \in 1..Len(bound_arg) |->
            [param_idx |-> param_idx, decl_param |-> decl_param,
             val_idx |-> i - 1,
             arg_kwd |-> PyNone, bound_arg |-> bound_arg[i]]]
    ELSE <<[param_idx |-> param_idx, decl_param |-> decl_param,
            val_idx |-> 0,
            arg_kwd |-> IF InKwargs(decl_param.name, kwds)
                        THEN Kwd(decl_param.name) ELSE PyNone,
            bound_arg |-> bound_arg]>>

\* The loop of _check_one_param_one_arg over the checks of the parameter.
ChecksOfArg(a, arg_checks_for_param) ==
    [c \in 1..Len(arg_checks_for_param) |->
        [param_idx |-> a.param_idx, decl_param |-> a.decl_param,
         val_idx |-> a.val_idx,
         arg_kwd |-> a.arg_kwd, bound_arg |-> a.bound_arg,
         check_idx |-> c - 1, check |-> arg_checks_for_param[c]]]

RECURSIVE Flatten(_)
Flatten(seqs) ==
    IF seqs = <<>> THEN <<>> ELSE Head(seqs) \o Flatten(Tail(seqs))

\* ParamOrder_reversed walks the parameters from the last to the first.
ParamOrder_reversed(n) == [i \in 1..n |-> n + 1 - i]

\* The order in which check_args_one_call walks the parameters.
ParamOrder(n) == [i \in 1..n |-> i]

\* The check evaluations of one call, in the order of the loops of
\* check_args_one_call and _check_one_param_one_arg.
Evaluations(pairs, bound, kwds) ==
    LET order == ParamOrder(Len(pairs))
    IN Flatten([k \in 1..Len(order) |->
            LET pair == pairs[order[k]]
                args == ArgsOfParam(order[k] - 1, pair.decl_param,
                                    bound[pair.decl_param.name], kwds)
            IN Flatten([j \in 1..Len(args) |->
                            ChecksOfArg(args[j], pair.arg_checks)])])

\* Passed_truthy tests "if is_valid:" where the code tests
\* "if is_valid == True:".
Passed_truthy(is_valid_result) == is_valid_result.r \in {"True", "dict"}

\* is_valid == True
Passed(is_valid_result) == is_valid_result = RetTrue

\* ErrorOfOutcome_as_violation reports a check that could not be evaluated
\* as a check that failed.
ErrorOfOutcome_as_violation(e, is_valid_result) ==
    LET arg_idx_or_kwd ==
            IF e.arg_kwd # PyNone THEN e.arg_kwd ELSE Idx(e.param_idx)
        param == _DeclFuncParam(e.param_idx, e.decl_param.name)
        arg == _FuncCallArg(arg_idx_or_kwd, e.bound_arg)
    IN IF is_valid_result.r = "_InternalExecutionError"
       THEN CallArgValueCheckViolation(param, arg, e.check)
       ELSE to_raise_on_failed_check(e.check, param, arg, is_valid_result)

\* The error that _check_one_param_one_arg raises for an outcome of
\* is_valid that is not True.
ErrorOfOutcome(e, is_valid_result) ==
    LET arg_idx_or_kwd ==
            IF e.arg_kwd # PyNone THEN e.arg_kwd ELSE Idx(e.param_idx)
        param == _DeclFuncParam(e.param_idx, e.decl_param.name)
        arg == _FuncCallArg(arg_idx_or_kwd, e.bound_arg)
    IN IF is_valid_result.r = "_InternalExecutionError"
       THEN CallArgCheckExecutionError(
                param, arg, e.check,
                is_valid_result.operation_that_failed,
                is_valid_result.value_that_caused_failure)
       ELSE to_raise_on_failed_check(e.check, param, arg, is_valid_result)

\* ForwardedArgs_positional_only passes on func(*pos_args).
ForwardedArgs_positional_only(pos, kwd, bound) == [pos |-> pos, kwd |-> <<>>]

\* What the wrapper passes on to the wrapped function.
ForwardedArgs(pos, kwd, bound) == [pos |-> pos, kwd |-> kwd]

\* The state of the package before any function is decorated.
InitCall ==
    /\ pc = "import"
    /\ arg_checks_for_one_decl = <<>>
    /\ reg_error = NoError
    /\ supplied = NoCall
    /\ pos_args = <<>>
    /\ kwd_args = <<>>
    /\ bound_arguments = NoArguments
    /\ todo = <<>>
    /\ evaluated = <<>>
    /\ raised = NoError
    /\ received = <<>>
    /\ ret = PyNone

InitCat ==
    /\ cat_check = isNotEmpty
    /\ cat_x = PyNone
    /\ cat_result = NoResult
    /\ cat_error = NoError

\* Nothing is constructed, caught, imported or run concurrently.
InitOther ==
    /\ ctor_arg = PyNone
    /\ ctor_location = <<>>
    /\ ctor_result = NoResult
    /\ exc_raised = "Exception"
    /\ exc_handler = "Exception"
    /\ exc_caught = NoResult
    /\ namespace = {}
    /\ import_error = NoError
    /\ import_pos = NoResult
    /\ wanted = {}
    /\ tables = <<>>
    /\ threads = <<>>
    /\ remembered = NoResult

Init ==
    /\ func \in Funcs
    /\ InitCall
    /\ InitCat
    /\ InitOther

\* validate_call(func): the decorator compiles the annotations and, if
\* that succeeds, returns the wrapper.
Register ==
    /\ pc = "import"
    /\ LET r == _ArgChecksForOneFuncDecl(func)
       IN IF r.ok
          THEN /\ arg_checks_for_one_decl' = r.checks
               /\ reg_error' = NoError
               /\ pc' = "idle"
          ELSE /\ arg_checks_for_one_decl' = <<>>
               /\ reg_error' = r.err
               /\ pc' = "reg_failed"
    /\ UNCHANGED <<func, supplied, pos_args, kwd_args, bound_arguments, todo,
                   evaluated, raised, received, ret>>
    /\ UNCHANGED <<cat_vars, ctor_vars, exc_vars, import_vars, thread_vars,
                   remembered>>

\* A caller calls the wrapper.
BeginCall ==
    /\ pc = "idle"
    /\ \E args \in PosArgs, kwargs \in KwdArgs(func) :
        /\ supplied' = [pos |-> args, kwd |-> kwargs]
        /\ pos_args' = args
        /\ kwd_args' = kwargs
    /\ pc' = "bind"
    /\ UNCHANGED <<func, arg_checks_for_one_decl, reg_error, bound_arguments,
                   todo, evaluated, raised, received, ret>>
    /\ UNCHANGED <<cat_vars, ctor_vars, exc_vars, import_vars, thread_vars,
                   remembered>>

\* check_args_one_call, up to the loop: bind and apply_defaults.
Bind ==
    /\ pc = "bind"
    /\ LET b == Signature_bind(func.parameters, pos_args, kwd_args)
       IN IF b.ok
          THEN LET bound == apply_defaults(func.parameters, b.arguments)
               IN /\ bound_arguments' = bound
                  /\ todo' = Evaluations(arg_checks_for_one_decl, bound,
                                         kwd_args)
                  /\ raised' = NoError
                  /\ pc' = "check"
          ELSE /\ raised' = CallArgBindingRejection(b.args)
               /\ pc' = "raised"
               /\ UNCHANGED <<bound_arguments, todo>>
    /\ UNCHANGED <<func, arg_checks_for_one_decl, reg_error, supplied,
                   pos_args, kwd_args, evaluated, received, ret>>
    /\ UNCHANGED <<cat_vars, ctor_vars, exc_vars, import_vars, thread_vars,
                   remembered>>

\* CheckStep_consumes_checks is CheckStep with a check table that a failed
\* check empties for its parameter.
CheckStep_consumes_checks ==
    /\ pc = "check"
    /\ todo # <<>>
    /\ LET e == Head(todo)
           is_valid_result == is_valid(e.check, e.bound_arg)
       IN /\ evaluated' = Append(evaluated,
                                 e @@ [outcome |-> is_valid_result])
          /\ IF Passed(is_valid_result)
             THEN /\ todo' = Tail(todo)
                  /\ UNCHANGED <<raised, pc, arg_checks_for_one_decl>>
             ELSE /\ raised' = ErrorOfOutcome(e, is_valid_result)
                  /\ pc' = "raised"
                  /\ arg_checks_for_one_decl' =
                        [arg_checks_for_one_decl EXCEPT
                            ![e.param_idx + 1].arg_checks = <<>>]
                  /\ UNCHANGED todo
    /\ UNCHANGED <<func, reg_error, supplied,
                   pos_args, kwd_args, bound_arguments, received, ret>>
    /\ UNCHANGED <<cat_vars, ctor_vars, exc_vars, import_vars, thread_vars,
                   remembered>>

\* One turn of the loop of _check_one_param_one_arg.
CheckStep ==
    /\ pc = "check"
    /\ todo # <<>>
    /\ LET e == Head(todo)
           is_valid_result == is_valid(e.check, e.bound_arg)
       IN /\ evaluated' = Append(evaluated,
                                 e @@ [outcome |-> is_valid_result])
          /\ IF Passed(is_valid_result)
             THEN /\ todo' = Tail(todo)
                  /\ UNCHANGED <<raised, pc>>
             ELSE /\ raised' = ErrorOfOutcome(e, is_valid_result)
                  /\ pc' = "raised"
                  /\ UNCHANGED todo
    /\ UNCHANGED <<func, arg_checks_for_one_decl, reg_error, supplied,
                   pos_args, kwd_args, bound_arguments, received, ret>>
    /\ UNCHANGED <<cat_vars, ctor_vars, exc_vars, import_vars, thread_vars,
                   remembered>>

\* return func(*pos_args, **kwd_args)
Forward ==
    /\ pc = "check"
    /\ todo = <<>>
    /\ LET fwd == ForwardedArgs(pos_args, kwd_args, bound_arguments)
       IN /\ received' = Append(received, fwd)
          /\ ret' = FuncBody(func, fwd.pos, fwd.kwd)
    /\ pc' = "returned"
    /\ UNCHANGED <<func, arg_checks_for_one_decl, reg_error, supplied,
                   pos_args, kwd_args, bound_arguments, todo, evaluated,
                   raised>>
    /\ UNCHANGED <<cat_vars, ctor_vars, exc_vars, import_vars, thread_vars,
                   remembered>>

\* The call is over: its locals and its result are gone.
EndCall ==
    /\ pc \in {"returned", "raised"}
    /\ pc' = "idle"
    /\ supplied' = NoCall
    /\ pos_args' = <<>>
    /\ kwd_args' = <<>>
    /\ bound_arguments' = NoArguments
    /\ todo' = <<>>
    /\ evaluated' = <<>>
    /\ raised' = NoError
    /\ received' = <<>>
    /\ ret' = PyNone
    /\ UNCHANGED <<func, arg_checks_for_one_decl, reg_error>>
    /\ UNCHANGED <<cat_vars, ctor_vars, exc_vars, import_vars, thread_vars,
                   remembered>>

Next == Register \/ BeginCall \/ Bind \/ CheckStep \/ Forward \/ EndCall

Spec == Init /\ [][Next]_vars

\* ------------------------------------------------------------------------
\* The check catalogue on its own: one check of the catalogue is evaluated
\* on one value, and the error of a failed check is built as
\* _check_one_param_one_arg builds it.
\* ------------------------------------------------------------------------
\* the sequences over S of length at most n
SeqsUpTo(S, n) == UNION {[1..k -> S] : k \in 0..n}

CatAtoms ==
    {PyInt(0 - 1), PyInt(0), PyInt(1), PyBool(0), PyBool(1), PyStr(<<>>),
     PyStr(<<24>>), PyStr(<<1, 2>>), MyClass(1), PyNone}
CatElems == {PyInt(0), PyInt(1), PyInt(2), PyInt(3), PyBool(1), PyStr(<<24>>)}
\* lists of lists, such as [[1, "x"]]
CatNested ==
    LET inner == {PyList(es) : es \in SeqsUpTo({PyInt(1), PyStr(<<24>>)}, 2)}
    IN {PyList(<<a>>) : a \in inner}
       \cup {PyList(<<a, b>>) : a \in inner, b \in inner}
CatValues ==
    CatAtoms
    \cup CatNested
    \cup {PyList(es) : es \in SeqsUpTo(CatElems, MaxLen)}
    \cup {PyTuple(es) : es \in SeqsUpTo(CatElems, MaxLen)}
    \cup {Duck(attrs) : attrs \in SUBSET SequenceAttrs}

CatChecks ==
    {isTypeEqualTo(Class(T)) : T \in {"int", "bool", "str", "list", "MyClass"}}
    \cup {isTypeOfSequence(SequenceOf(Class("int"))),
          isNotEmpty, isMonotonicIncr, isPositive,
          eachAll(isTypeEqualTo(Class("int"))), eachAll(isPositive),
          eachAll(eachAll(isTypeEqualTo(Class("int"))))}

CatParam == _DeclFuncParam(0, "p")

InitCatalog ==
    /\ func = deco_0_params_no_annots
    /\ InitCall
    /\ cat_check \in CatChecks
    /\ cat_x \in CatValues
    /\ cat_result = NoResult
    /\ cat_error = NoError
    /\ InitOther

EvalCheck ==
    /\ cat_result = NoResult
    /\ LET is_valid_result == is_valid(cat_check, cat_x)
       IN /\ cat_result' = is_valid_result
          /\ cat_error' =
                IF is_valid_result.r \in {"False", "dict"}
                THEN to_raise_on_failed_check(
                         cat_check, CatParam, _FuncCallArg(Idx(0), cat_x),
                         is_valid_result)
                ELSE NoError
    /\ UNCHANGED <<cat_check, cat_x>>
    /\ UNCHANGED <<call_vars, ctor_vars, exc_vars, import_vars, thread_vars,
                   remembered>>

NextCatalog == EvalCheck

SpecCatalog == InitCatalog /\ [][NextCatalog]_vars

\* ------------------------------------------------------------------------
\* Calls with one argument: the functions of one parameter are called with
\* every value of the catalogue, by position or by keyword.
\* ------------------------------------------------------------------------
OneArgChecks ==
    {isNotEmpty, isMonotonicIncr, isPositive, eachAll(isPositive),
     eachAll(isTypeEqualTo(Class("int")))}

OneArgFuncs ==
    {deco_1_params_annot_int, deco_1_params_annot_MyClass,
     deco_1_params_annot_Sequence, deco_1_params_annot_Sequence_int,
     deco_1_params_annot_int_isPositive}
    \cup {deco_1_params_annot_object(m) : m \in OneArgChecks}

InitOneArg ==
    /\ func \in OneArgFuncs
    /\ InitCall
    /\ InitCat
    /\ InitOther

BeginCallOneArg ==
    /\ pc = "idle"
    /\ \E x \in CatValues, by_kwd \in BOOLEAN :
        LET args == IF by_kwd THEN <<>> ELSE <<x>>
            kwargs == IF by_kwd THEN <<KwArg("p", x)>> ELSE <<>>
        IN /\ supplied' = [pos |-> args, kwd |-> kwargs]
           /\ pos_args' = args
           /\ kwd_args' = kwargs
    /\ pc' = "bind"
    /\ UNCHANGED <<func, arg_checks_for_one_decl, reg_error, bound_arguments,
                   todo, evaluated, raised, received, ret>>
    /\ UNCHANGED <<cat_vars, ctor_vars, exc_vars, import_vars, thread_vars,
                   remembered>>

NextOneArg ==
    Register \/ BeginCallOneArg \/ Bind \/ CheckStep \/ Forward \/ EndCall

SpecOneArg == InitOneArg /\ [][NextOneArg]_vars

\* ------------------------------------------------------------------------
\* Registration on its own: functions of one parameter whose annotation
\* nests Annotated and lists of metadata to several depths.
\* ------------------------------------------------------------------------
MetaAtoms ==
    {isPositive, Class("isNotEmpty"), eachAll(isPositive), Class("int"),
     Class("eachAll"), isTypeEqualTo(Class("int")), PyInt(3)}
MetaLists1 == {MetaList(items) : items \in SeqsUpTo(MetaAtoms, MaxLen)}
MetaLists2 ==
    {MetaList(<<l>>) : l \in MetaLists1}
    \cup {MetaList(<<a, l>>) : a \in MetaAtoms, l \in MetaLists1}
    \cup {MetaList(<<l, a>>) : a \in MetaAtoms, l \in MetaLists1}
MetaItems == MetaAtoms \cup MetaLists1 \cup MetaLists2
MetadataTuples ==
    {<<m>> : m \in MetaItems}
    \cup {<<a, m>> : a \in MetaAtoms, m \in MetaAtoms \cup MetaLists1}
    \cup {<<m, a>> : a \in MetaAtoms, m \in MetaAtoms \cup MetaLists1}

CompileBases ==
    {Class("int"), SequenceOf(Class("int")),
     Annotated(Class("int"), <<isMonotonicIncr>>),
     Annotated(Annotated(Class("int"), <<isNotEmpty>>),
               <<MetaList(<<isMonotonicIncr>>)>>)}

CompileAnnots ==
    CompileBases
    \cup {Annotated(b, md) : b \in CompileBases, md \in MetadataTuples}

\* def f(p: annot)
deco_1_params_annot(annot) ==
    Func("deco_1_params_annot", <<Plain("p", annot)>>)

InitCompile ==
    /\ func \in {deco_1_params_annot(a) : a \in CompileAnnots}
    /\ InitCall
    /\ InitCat
    /\ InitOther

NextCompile == Register

SpecCompile == InitCompile /\ [][NextCompile]_vars

\* ------------------------------------------------------------------------
\* The construction of an each-check on its own: client code at some file
\* and line evaluates eachAll(check_applied_to_each).
\* ------------------------------------------------------------------------
MaxLine == 3

CallingLocation(file_name, line_num) ==
    [file_name |-> file_name, line_num |-> line_num]

AnnotationConstructionError(check_type, calling_location, problem) ==
    [kind |-> "AnnotationConstructionError", check_type |-> check_type,
     calling_location |-> calling_location, problem |-> problem]

Constructed(self) == [ok |-> TRUE, self |-> self]

\* The check classes whose constructor takes no argument.
DefaultConstructible == {"isNotEmpty", "isMonotonicIncr", "isPositive"}
\* The subclasses of _AbstractCheck: the catalogue and its abstract bases.
CheckClasses ==
    TypeCheckKinds \cup ValueCheckKinds
    \cup {"_AbstractCheck", "_AbstractTypeCheck", "_AbstractArgValueCheck",
          "_AbstractEachCheck"}

\* The frames of a construction, innermost first: those of checks.py, then
\* the frames of the code that wrote eachAll(...).
this_filename == "checks.py"
FramesOfConstruction(caller_stack) ==
    <<CallingLocation(this_filename, 190),
      CallingLocation(this_filename, 228),
      CallingLocation(this_filename, 253)>> \o caller_stack

RECURSIVE _get_calling_location(_)
_get_calling_location(frames) ==
    IF Head(frames).file_name = this_filename
    THEN _get_calling_location(Tail(frames))
    ELSE Head(frames)

\* _AbstractEachCheck.__init__, reached through eachAll.__init__.
\* issubclass() raises TypeError when its first argument is not a class,
\* and so does the call of a class that cannot be built without arguments.
_AbstractEachCheck_init(check_applied_to_each, caller_stack) ==
    IF IsCheckInstance(check_applied_to_each)
    THEN Constructed(eachAll(check_applied_to_each))
    ELSE IF ~IsClassObject(check_applied_to_each)
    THEN Raised([kind |-> "TypeError"])
    ELSE IF check_applied_to_each.name \in CheckClasses
    THEN IF check_applied_to_each.name \in DefaultConstructible
         THEN Constructed(eachAll([c |-> check_applied_to_each.name]))
         ELSE Raised([kind |-> "TypeError"])
    ELSE Raised(AnnotationConstructionError(
                    Class("eachAll"),
                    _get_calling_location(FramesOfConstruction(caller_stack)),
                    "expected an _AbstractCheck instance"))

CtorArgs ==
    CatChecks
    \cup {Class(n) : n \in CheckClasses \cup {"int", "str", "MyClass"}}
    \cup {PyInt(3), PyStr(<<24>>), PyNone, PyList(<<>>), MyClass(1)}

CallerStacks ==
    LET frames == {CallingLocation(f, l) :
                      f \in {"client.py", "test_argcheck.py"},
                      l \in 1..MaxLine}
    IN {<<a>> : a \in frames} \cup {<<a, b>> : a \in frames, b \in frames}

InitConstruct ==
    /\ func = deco_0_params_no_annots
    /\ InitCall
    /\ InitCat
    /\ ctor_arg \in CtorArgs
    /\ ctor_location \in CallerStacks
    /\ ctor_result = NoResult
    /\ exc_raised = "Exception"
    /\ exc_handler = "Exception"
    /\ exc_caught = NoResult
    /\ namespace = {}
    /\ import_error = NoError
    /\ import_pos = NoResult
    /\ wanted = {}
    /\ tables = <<>>
    /\ threads = <<>>
    /\ remembered = NoResult

Construct ==
    /\ ctor_result = NoResult
    /\ ctor_result' = _AbstractEachCheck_init(ctor_arg, ctor_location)
    /\ UNCHANGED <<ctor_arg, ctor_location>>
    /\ UNCHANGED <<call_vars, cat_vars, exc_vars, import_vars, thread_vars,
                   remembered>>

SpecConstruct == InitConstruct /\ [][Construct]_vars

\* ------------------------------------------------------------------------
\* Repeated calls: one wrapper is called again and again with at most one
\* argument, and one of the calls is remembered with its outcome, to be
\* compared with the later calls.
\* ------------------------------------------------------------------------
RepeatFuncs ==
    {deco_1_params_annot_int_dflt_str, deco_1_params_annot_Sequence_int,
     deco_1_params_annot_int_isPositive, deco_Sequence_of_Annotated,
     deco_2_params_both_annot, deco_variadic, deco_posonly_kwonly}

InitRepeat ==
    /\ func \in RepeatFuncs
    /\ InitCall
    /\ InitCat
    /\ InitOther

BeginCallRepeat ==
    /\ pc = "idle"
    /\ \E args \in PosArgs, kwargs \in KwdArgs(func) :
        /\ Len(args) + Len(kwargs) <= 1
        /\ supplied' = [pos |-> args, kwd |-> kwargs]
        /\ pos_args' = args
        /\ kwd_args' = kwargs
    /\ pc' = "bind"
    /\ UNCHANGED <<func, arg_checks_for_one_decl, reg_error, bound_arguments,
                   todo, evaluated, raised, received, ret>>
    /\ UNCHANGED <<cat_vars, ctor_vars, exc_vars, import_vars, thread_vars,
                   remembered>>

\* What the caller of the wrapper observes of a call that is over.
Outcome == [pc |-> pc, raised |-> raised, ret |-> ret, received |-> received]

\* The call is over, as in EndCall; the observer either remembers it or
\* counts it as one more call made since the remembered one.
EndCallRepeat ==
    /\ pc \in {"returned", "raised"}
    /\ pc' = "idle"
    /\ supplied' = NoCall
    /\ pos_args' = <<>>
    /\ kwd_args' = <<>>
    /\ bound_arguments' = NoArguments
    /\ todo' = <<>>
    /\ evaluated' = <<>>
    /\ raised' = NoError
    /\ received' = <<>>
    /\ ret' = PyNone
    /\ \/ /\ remembered = NoResult
          /\ remembered' \in {NoResult,
                              [supplied |-> supplied, outcome |-> Outcome,
                               later |-> 0]}
       \/ /\ remembered # NoResult
          /\ remembered' = [remembered EXCEPT
                               !.later = IF @ < 2 THEN @ + 1 ELSE @]
    /\ UNCHANGED <<func, arg_checks_for_one_decl, reg_error>>
    /\ UNCHANGED <<cat_vars, ctor_vars, exc_vars, import_vars, thread_vars>>

NextRepeat ==
    Register \/ BeginCallRepeat \/ Bind \/ CheckStep \/ Forward
    \/ EndCallRepeat

SpecRepeat == InitRepeat /\ [][NextRepeat]_vars

\* ------------------------------------------------------------------------
\* Concurrent calls: several threads call wrappers at once.  A call owns
\* its frame (the locals of the wrapper and of check_args_one_call); the
\* compiled checks of the wrappers are shared.  The threads interleave at
\* the steps of a call.
\* ------------------------------------------------------------------------
NumThreads == 2

ConcFuncs ==
    {deco_1_params_annot_int_isPositive, deco_Sequence_of_Annotated,
     deco_variadic}
ConcFunc(name) == CHOOSE f \in ConcFuncs : f.name = name

IdleFrame ==
    [pc |-> "idle", func |-> "", supplied |-> NoCall, pos_args |-> <<>>,
     kwd_args |-> <<>>, bound_arguments |-> NoArguments, todo |-> <<>>,
     raised |-> NoError, ret |-> PyNone]

\* Locals_of_the_wrapper keeps the locals of a call on the wrapper, where
\* every call of any thread finds those of the first thread.
Locals_of_the_wrapper(t) == threads[1]

\* The frame that the steps of the call of thread t read.
Locals(t) == threads[t]

InitConcurrent ==
    /\ func = deco_0_params_no_annots
    /\ InitCall
    /\ InitCat
    /\ ctor_arg = PyNone
    /\ ctor_location = <<>>
    /\ ctor_result = NoResult
    /\ exc_raised = "Exception"
    /\ exc_handler = "Exception"
    /\ exc_caught = NoResult
    /\ namespace = {}
    /\ import_error = NoError
    /\ import_pos = NoResult
    /\ wanted = {}
    /\ tables = [n \in {f.name : f \in ConcFuncs} |->
                    _ArgChecksForOneFuncDecl(ConcFunc(n)).checks]
    /\ threads = [t \in 1..NumThreads |-> IdleFrame]
    /\ remembered = NoResult

\* Thread t calls a wrapper with at most one positional argument.
BeginCallOf(t) ==
    /\ threads[t].pc = "idle"
    /\ \E f \in ConcFuncs, args \in PosArgs :
        /\ Len(args) <= 1
        /\ threads' = [threads EXCEPT ![t] =
                [IdleFrame EXCEPT !.pc = "bind", !.func = f.name,
                                  !.supplied = [pos |-> args, kwd |-> <<>>],
                                  !.pos_args = args]]
    /\ UNCHANGED <<call_vars, cat_vars, ctor_vars, exc_vars, import_vars,
                   tables, remembered>>

BindOf(t) ==
    /\ threads[t].pc = "bind"
    /\ LET l == Locals(t)
           f == ConcFunc(l.func)
           b == Signature_bind(f.parameters, l.pos_args, l.kwd_args)
       IN IF b.ok
          THEN LET bound == apply_defaults(f.parameters, b.arguments)
               IN threads' = [threads EXCEPT
                     ![t].bound_arguments = bound,
                     ![t].todo = Evaluations(tables[l.func], bound,
                                             l.kwd_args),
                     ![t].pc = "check"]
          ELSE threads' = [threads EXCEPT
                     ![t].raised = CallArgBindingRejection(b.args),
                     ![t].pc = "raised"]
    /\ UNCHANGED <<call_vars, cat_vars, ctor_vars, exc_vars, import_vars,
                   tables, remembered>>

CheckStepOf(t) ==
    /\ threads[t].pc = "check"
    /\ threads[t].todo # <<>>
    /\ LET l == Locals(t)
           e == Head(l.todo)
           is_valid_result == is_valid(e.check, e.bound_arg)
       IN IF Passed(is_valid_result)
          THEN threads' = [threads EXCEPT ![t].todo = Tail(l.todo)]
          ELSE threads' = [threads EXCEPT
                     ![t].raised = ErrorOfOutcome(e, is_valid_result),
                     ![t].pc = "raised"]
    /\ UNCHANGED <<call_vars, cat_vars, ctor_vars, exc_vars, import_vars,
                   tables, remembered>>

ForwardOf(t) ==
    /\ threads[t].pc = "check"
    /\ threads[t].todo = <<>>
    /\ LET l == Locals(t)
           fwd == ForwardedArgs(l.pos_args, l.kwd_args, l.bound_arguments)
       IN threads' = [threads EXCEPT
                ![t].ret = FuncBody(ConcFunc(l.func), fwd.pos, fwd.kwd),
                ![t].pc = "returned"]
    /\ UNCHANGED <<call_vars, cat_vars, ctor_vars, exc_vars, import_vars,
                   tables, remembered>>

NextConcurrent ==
    \E t \in 1..NumThreads :
        BeginCallOf(t) \/ BindOf(t) \/ CheckStepOf(t) \/ ForwardOf(t)

SpecConcurrent == InitConcurrent /\ [][NextConcurrent]_vars

\* ------------------------------------------------------------------------
\* The exception classes on their own: an exception of some class meets a
\* clause "except exc_handler:" in the caller.
\* ------------------------------------------------------------------------
\* ExceptionBases_flat derives every class of exceptions.py directly from
\* ArgCheckException.
ExceptionBases_flat(cls) ==
    IF cls = "BaseException" THEN {}
    ELSE IF cls = "Exception" THEN {"BaseException"}
    ELSE IF cls \in {"TypeError", "AssertionError", "ArgCheckException"}
    THEN {"Exception"}
    ELSE {"ArgCheckException"}

\* The bases named in the class statements of exceptions.py, and those of
\* the built-in exceptions.
ExceptionBases(cls) ==
    IF cls = "BaseException" THEN {}
    ELSE IF cls = "Exception" THEN {"BaseException"}
    ELSE IF cls \in {"TypeError", "AssertionError", "ArgCheckException"}
    THEN {"Exception"}
    ELSE IF cls \in {"_InternalExecutionError", "AnnotationCompilationError",
                     "AnnotationConstructionError", "CallArgBindingRejection",
                     "CallArgCheckException"}
    THEN {"ArgCheckException"}
    ELSE IF cls \in {"CallArgCheckExecutionError", "CallArgCheckViolation"}
    THEN {"CallArgCheckException"}
    ELSE {"CallArgCheckViolation"}

ExceptionClasses ==
    {"BaseException", "Exception", "TypeError", "AssertionError",
     "ArgCheckException", "_InternalExecutionError",
     "AnnotationCompilationError", "AnnotationConstructionError",
     "CallArgBindingRejection", "CallArgCheckException",
     "CallArgCheckExecutionError", "CallArgCheckViolation"}
    \cup ViolationKinds

RECURSIVE issubclass(_, _)
issubclass(cls, classinfo) ==
    \/ cls = classinfo
    \/ \E base \in ExceptionBases(cls) : issubclass(base, classinfo)

InitCatch ==
    /\ func = deco_0_params_no_annots
    /\ InitCall
    /\ InitCat
    /\ ctor_arg = PyNone
    /\ ctor_location = <<>>
    /\ ctor_result = NoResult
    /\ exc_raised \in ExceptionClasses
    /\ exc_handler \in ExceptionClasses
    /\ exc_caught = NoResult
    /\ namespace = {}
    /\ import_error = NoError
    /\ import_pos = NoResult
    /\ wanted = {}
    /\ tables = <<>>
    /\ threads = <<>>
    /\ remembered = NoResult

\* try: ... except exc_handler: ...
Catch ==
    /\ exc_caught = NoResult
    /\ exc_caught' = IF issubclass(exc_raised, exc_handler)
                     THEN [r |-> "caught"] ELSE [r |-> "propagated"]
    /\ UNCHANGED <<exc_raised, exc_handler>>
    /\ UNCHANGED <<call_vars, cat_vars, ctor_vars, import_vars, thread_vars,
                   remembered>>

SpecCatch == InitCatch /\ [][Catch]_vars

\* ------------------------------------------------------------------------
\* The import of the package: "import argcheck" runs the three from-import
\* statements of argcheck/__init__.py, each of which loads a submodule and
\* then binds the listed names one after the other.
\* ------------------------------------------------------------------------
ImportStatements ==
    <<[module |-> "checks",
       names |-> <<"isTypeEqualTo", "isTypeSequence", "isNotEmpty",
                   "isMonotonicIncr", "isPositive", "eachAll">>],
      [module |-> "exceptions",
       names |-> <<"ArgCheckException", "AnnotationCompilationError",
                   "AnnotationConstructionError", "CallArgBindingRejection",
                   "CallArgCheckException", "CallArgCheckExecutionError",
                   "CallArgCheckViolation", "CallArgTypeCheckViolation",
                   "CallArgValueCheckViolation",
                   "CallArgEachCheckViolation">>],
      [module |-> "impl",
       names |-> <<"Annotated", "Sequence", "validate_call">>]>>

\* The names that the top level of a submodule defines or imports.
ModuleNames(module) ==
    LET exceptions ==
            ExceptionClasses \ {"BaseException", "Exception", "TypeError",
                                 "AssertionError"}
    IN IF module = "exceptions" THEN exceptions
       ELSE IF module = "checks"
       THEN CheckClasses \cup {"CallingLocation", "_get_calling_location"}
            \cup exceptions
       ELSE {"Annotated", "Sequence", "validate_call", "_DeclFuncParam",
             "_FuncCallArg", "_DeclParamArgChecksPair",
             "_ArgChecksForOneFuncDecl", "_eval_PEP_484_param_annot",
             "_eval_metadata_tuple", "_eval_one_metadata_value"}

\* The submodules that loading a submodule binds in the package: itself
\* and those it imports.
SubmodulesLoadedBy(module) ==
    IF module = "exceptions" THEN {"exceptions", "better_repr"}
    ELSE IF module = "checks" THEN {"checks", "exceptions", "better_repr"}
    ELSE {"impl", "checks", "exceptions", "better_repr", "import_annotated"}

ImportError(name, module) ==
    [kind |-> "ImportError", name |-> name, module |-> module]

\* The names the package means to offer, and its submodules.
PackageNames ==
    UNION {{ImportStatements[k].names[j] :
                j \in 1..Len(ImportStatements[k].names)}
             \cup {ImportStatements[k].module} :
           k \in 1..Len(ImportStatements)}

InitImport ==
    /\ func = deco_0_params_no_annots
    /\ InitCall
    /\ InitCat
    /\ ctor_arg = PyNone
    /\ ctor_location = <<>>
    /\ ctor_result = NoResult
    /\ exc_raised = "Exception"
    /\ exc_handler = "Exception"
    /\ exc_caught = NoResult
    /\ namespace = {}
    /\ import_error = NoError
    /\ import_pos = [stmt |-> 1, name |-> 0]
    /\ wanted \in {w \in SUBSET PackageNames : Cardinality(w) <= 2}
    /\ tables = <<>>
    /\ threads = <<>>
    /\ remembered = NoResult

\* from .module import (...): the submodule is loaded.
ImportSubmodule ==
    /\ import_error = NoError
    /\ import_pos.stmt <= Len(ImportStatements)
    /\ import_pos.name = 0
    /\ namespace' = namespace
                    \cup SubmodulesLoadedBy(
                            ImportStatements[import_pos.stmt].module)
    /\ import_pos' = [import_pos EXCEPT !.name = 1]
    /\ UNCHANGED <<import_error, wanted>>
    /\ UNCHANGED <<call_vars, cat_vars, ctor_vars, exc_vars, thread_vars,
                   remembered>>

\* The next listed name is looked up in the submodule and bound in the
\* package; a name the submodule lacks raises ImportError, and the package
\* that failed to import is discarded.
ImportName ==
    /\ import_error = NoError
    /\ import_pos.stmt <= Len(ImportStatements)
    /\ import_pos.name >= 1
    /\ LET stmt == ImportStatements[import_pos.stmt]
           name == stmt.names[import_pos.name]
       IN IF name \in ModuleNames(stmt.module)
          THEN /\ namespace' = namespace \cup {name}
               /\ import_pos' =
                    IF import_pos.name < Len(stmt.names)
                    THEN [import_pos EXCEPT !.name = @ + 1]
                    ELSE [stmt |-> import_pos.stmt + 1, name |-> 0]
               /\ UNCHANGED import_error
          ELSE /\ import_error' = ImportError(name, stmt.module)
               /\ namespace' = {}
               /\ UNCHANGED import_pos
    /\ UNCHANGED wanted
    /\ UNCHANGED <<call_vars, cat_vars, ctor_vars, exc_vars, thread_vars,
                   remembered>>

NextImport == ImportSubmodule \/ ImportName

SpecImport == InitImport /\ [][NextImport]_vars

\* ------------------------------------------------------------------------
\* Properties of a call.
\* ------------------------------------------------------------------------
\* The arguments of the call in progress have been bound.
HasBound ==
    \/ pc \in {"check", "returned"}
    \/ pc = "raised" /\ raised.kind # "CallArgBindingRejection"

CallOver == pc \in {"returned", "raised"}

\* The values bound to the i-th declared parameter, in the order in which
\* they were collected.
BoundValues(i) ==
    LET param == func.parameters[i]
        b == bound_arguments[param.name]
    IN IF param.kind = VAR_KEYWORD THEN [j \in 1..Len(b) |-> b[j].val]
       ELSE IF param.kind = VAR_POSITIONAL THEN b
       ELSE <<b>>

ChecksOf(i) == arg_checks_for_one_decl[i].arg_checks

\* Every (parameter, bound value, check) of the call.
Triples ==
    UNION {UNION {{<<i, j, c>> : c \in 1..Len(ChecksOf(i))} :
                    j \in 1..Len(BoundValues(i))} :
            i \in 1..Len(func.parameters)}

\* declaration order, then collection order, then compiled order
Before(t, u) ==
    \/ t[1] < u[1]
    \/ t[1] = u[1] /\ t[2] < u[2]
    \/ t[1] = u[1] /\ t[2] = u[2] /\ t[3] < u[3]

TripleOutcome(t) == is_valid(ChecksOf(t[1])[t[3]], BoundValues(t[1])[t[2]])
NonPass == {t \in Triples : TripleOutcome(t) # RetTrue}
FirstNonPass == CHOOSE t \in NonPass : \A u \in NonPass : u = t \/ Before(t, u)
Key(e) == <<e.param_idx + 1, e.val_idx + 1, e.check_idx + 1>>
Last(seq) == seq[Len(seq)]

CallErrorKinds ==
    ViolationKinds \cup {"CallArgBindingRejection",
                         "CallArgCheckExecutionError"}

\* C1: when binding succeeds and every check passes for every bound value,
\* the wrapped function receives exactly the positional and keyword
\* arguments the caller supplied (nothing transformed, no default added),
\* and the wrapper returns the result of the wrapped function unchanged.
C1_ForwardsSuppliedArgs ==
    pc = "returned" =>
        /\ received = <<supplied>>
        /\ ret = FuncBody(func, supplied.pos, supplied.kwd)

\* A call that omits a defaulted, annotated parameter and buries a keyword
\* argument: it was checked and forwarded.
C1_Witness ==
    /\ pc = "returned"
    /\ func = deco_2_params_both_annot
    /\ supplied = [pos |-> <<>>, kwd |-> <<KwArg("p_1", PyInt(1)),
                                           KwArg("p_2", PyInt(0))>>]
    /\ Len(evaluated) = 3
    /\ ret = PyInt(1)

C2_Safety ==
    /\ Len(received) <= 1
    /\ received # <<>> => pc = "returned"
    /\ pc \in {"bind", "check"} => raised = NoError
    /\ pc = "raised" => raised.kind \in CallErrorKinds /\ received = <<>>
    /\ pc = "returned" =>
        /\ Len(received) = 1
        /\ raised = NoError
        /\ \A t \in Triples :
            /\ TripleOutcome(t) = RetTrue
            /\ \E k \in 1..Len(evaluated) :
                Key(evaluated[k]) = t /\ evaluated[k].outcome = RetTrue

C2_Progress ==
    /\ pc = "check" /\ pc' = "check" => Len(todo') < Len(todo)
    /\ pc \in {"returned", "raised"} => pc' = "idle"

\* C2: every call reaches exactly one terminal outcome: an error (binding
\* rejection, check violation or checking-execution error) without any
\* invocation of the wrapped function, or one invocation of the wrapped
\* function after every check of every bound value has passed.  Every turn
\* of the checking loop that does not end the call leaves fewer checks
\* ahead, and an outcome once reached is not replaced by another.
C2_OneTerminalOutcome == []C2_Safety /\ [][C2_Progress]_vars

C2_Witness ==
    /\ pc = "returned"
    /\ Len(received) = 1
    /\ Len(evaluated) >= 2
    /\ func = deco_1_params_annot_Sequence_int

\* C3: checks are evaluated in declaration order of the parameters
\* (whatever the order of the keywords at the call site), then in the
\* order in which a variadic parameter collected its values, then in
\* compiled order; the error raised is the one of the first (parameter,
\* value, check) in that order that does not pass, and nothing after it is
\* evaluated.
C3_FixedOrder ==
    HasBound =>
        /\ \A k \in 1..Len(evaluated) :
            /\ Key(evaluated[k]) \in Triples
            /\ evaluated[k].outcome = TripleOutcome(Key(evaluated[k]))
            /\ \A t \in Triples :
                Before(t, Key(evaluated[k])) <=>
                    \E m \in 1..(k - 1) : Key(evaluated[m]) = t
        /\ pc = "returned" => NonPass = {}
        /\ pc = "check" => \A k \in 1..Len(evaluated) :
                                evaluated[k].outcome = RetTrue
        /\ pc = "raised" =>
            /\ NonPass # {}
            /\ Key(Last(evaluated)) = FirstNonPass
            /\ raised.param.idx = FirstNonPass[1] - 1
            /\ raised.arg_that_caused_failure.val =
                    BoundValues(FirstNonPass[1])[FirstNonPass[2]]
            /\ (IF raised.kind \in ViolationKinds
                THEN raised.check_that_failed
                ELSE raised.during_check) =
                    ChecksOf(FirstNonPass[1])[FirstNonPass[3]]

\* Both parameters get a failing value, the keyword of the second written
\* first: the error is the one of the first parameter.
C3_Witness ==
    /\ pc = "raised"
    /\ func = deco_2_params_both_annot
    /\ supplied = [pos |-> <<>>, kwd |-> <<KwArg("p_2", Hello),
                                           KwArg("p_1", PyInt(0))>>]
    /\ raised.kind = "CallArgValueCheckViolation"
    /\ raised.param = _DeclFuncParam(0, "p_1")
    /\ Len(evaluated) = 2

\* C4: arguments that cannot be bound raise a binding rejection that carries
\* the diagnostic of the binder unchanged; no check is evaluated and no check
\* violation raised, whatever the annotations and the argument values.
C4_BindingRejection ==
    LET b == Signature_bind(func.parameters, supplied.pos, supplied.kwd)
    IN (pc \in {"check", "returned", "raised"} /\ ~b.ok) =>
        /\ pc = "raised"
        /\ raised.kind = "CallArgBindingRejection"
        /\ raised.exception_args = b.args
        /\ evaluated = <<>>
        /\ received = <<>>

\* The first argument violates its annotation and the second is missing.
C4_Witness ==
    /\ pc = "raised"
    /\ func = deco_2_params_annot_1_int
    /\ supplied = [pos |-> <<Hello>>, kwd |-> <<>>]
    /\ raised = CallArgBindingRejection(
                    <<[msg |-> "missing a required argument",
                       arg |-> "p_2"]>>)
    /\ evaluated = <<>>

\* The parameters that declare a default and take a single argument.
DefaultParams ==
    {i \in 1..Len(func.parameters) :
        /\ func.parameters[i].default.has
        /\ func.parameters[i].kind \notin {VAR_POSITIONAL, VAR_KEYWORD}}

\* The caller wrote an argument for the i-th parameter.
IsSupplied(i) ==
    \/ func.parameters[i].kind # KEYWORD_ONLY /\ i <= Len(supplied.pos)
    \/ InKwargs(func.parameters[i].name, supplied.kwd)

SuppliedValue(i) ==
    IF func.parameters[i].kind # KEYWORD_ONLY /\ i <= Len(supplied.pos)
    THEN supplied.pos[i]
    ELSE KwargsGet(func.parameters[i].name, supplied.kwd)

Fails(i, v) ==
    \E c \in 1..Len(ChecksOf(i)) : is_valid(ChecksOf(i)[c], v) # RetTrue

EvaluatedFor(i) == SelectSeq(evaluated, LAMBDA e : e.param_idx = i - 1)

\* C5: a parameter with a default and a constraint: when its argument is
\* omitted the default is bound and checked like a supplied value (a default
\* that violates the constraint raises the violation, with the default as
\* the offending value); when the argument is supplied the default is never
\* checked, and the supplied value decides alone.
C5_DefaultsChecked ==
    (HasBound /\ CallOver) =>
        \A i \in DefaultParams :
            LET v == IF IsSupplied(i) THEN SuppliedValue(i)
                     ELSE func.parameters[i].default.val
                earlier == \E t \in NonPass : t[1] < i
                mine == EvaluatedFor(i)
            IN /\ \A k \in 1..Len(mine) : mine[k].bound_arg = v
               /\ (~earlier /\ Fails(i, v)) =>
                    /\ pc = "raised"
                    /\ raised.param.idx = i - 1
                    /\ raised.arg_that_caused_failure.val = v
               /\ (~earlier /\ ~Fails(i, v)) =>
                    /\ Len(mine) = Len(ChecksOf(i))
                    /\ pc = "raised" => raised.param.idx # i - 1

\* p: int = "hello" with the argument omitted: the default is the offender.
C5_Witness ==
    /\ pc = "raised"
    /\ func = deco_1_params_annot_int_dflt_str
    /\ supplied = NoCall
    /\ raised.kind = "CallArgTypeCheckViolation"
    /\ raised.arg_that_caused_failure = _FuncCallArg(Idx(0), Hello)

\* The parameters without an annotation.
Unannotated ==
    {i \in 1..Len(func.parameters) : func.parameters[i].annotation = NoAnnot}

\* C6: a parameter without a constraint description compiles to an empty
\* check sequence; when no parameter has one, every call that binds makes
\* no check and forwards its arguments unchanged; and the value bound to an
\* unconstrained parameter never causes a violation.
C6_NoAnnotationNoCheck ==
    /\ pc \notin {"import", "reg_failed"} =>
        \A i \in Unannotated : ChecksOf(i) = <<>>
    /\ HasBound =>
        /\ \A k \in 1..Len(evaluated) :
                evaluated[k].param_idx + 1 \notin Unannotated
        /\ pc = "raised" => raised.param.idx + 1 \notin Unannotated
        /\ (CallOver /\ Unannotated = 1..Len(func.parameters)) =>
            /\ pc = "returned"
            /\ evaluated = <<>>
            /\ received = <<supplied>>

\* Two unannotated parameters take a str and a list.
C6_Witness ==
    /\ pc = "returned"
    /\ func = deco_2_params_no_annots
    /\ supplied = [pos |-> <<Hello>>,
                   kwd |-> <<KwArg("p_2", PyList(<<PyInt(1), Hello>>))>>]
    /\ evaluated = <<>>
    /\ ret = Hello

\* The parameters annotated Sequence[T] for a class T.
SequenceOfClassParams ==
    {i \in 1..Len(func.parameters) :
        /\ func.parameters[i].annotation.k = "Sequence"
        /\ func.parameters[i].annotation.args[1].k = "class"}

IsListOf(v, T) ==
    v.ty = "list" /\ \A j \in 1..Len(v.el) : v.el[j].ty = T

NumChecks(annot) ==
    LET r == _eval_PEP_484_param_annot("f", 0, "p", annot)
    IN IF r.ok THEN Len(r.checks) ELSE 0

\* C9: when the element description of Sequence[elem] compiles to more than
\* one check, the registration of the function fails with a compilation
\* error.
C9_MultiCheckElemRejected ==
    pc # "import" =>
        \A i \in 1..Len(func.parameters) :
            LET annot == func.parameters[i].annotation
            IN (annot.k = "Sequence" /\ NumChecks(annot.args[1]) > 1) =>
                /\ pc = "reg_failed"
                /\ reg_error.kind = "AnnotationCompilationError"

\* C7: isTypeEqualTo(T).is_valid(v) passes if type(v) is T and fails for
\* every v of another type, a type related to T included; the violation
\* carries the declared type T and the type received.
C7_TypeEquals ==
    (cat_result # NoResult /\ cat_check.c = "isTypeEqualTo") =>
        LET T == cat_check.type_declared
        IN IF cat_x.ty = T.name
           THEN cat_result = RetTrue
           ELSE /\ cat_result = RetFalse
                /\ cat_error = CallArgTypeCheckViolation(
                        CatParam, _FuncCallArg(Idx(0), cat_x), cat_check,
                        T, cat_x.ty)

\* C10: isTypeOfSequence.is_valid(v) passes if and only if v has all seven
\* of __getitem__, __len__, __contains__, __iter__, __reversed__, index and
\* count; a str and a tuple fail, a list passes.
C10_SequenceShaped ==
    (cat_result # NoResult /\ cat_check.c = "isTypeOfSequence") =>
        /\ cat_result \in {RetTrue, RetFalse}
        /\ cat_result = RetTrue <=> \A a \in SequenceAttrs : hasattr(cat_x, a)
        /\ cat_x.ty \in {"str", "tuple"} => cat_result = RetFalse
        /\ cat_x.ty = "list" => cat_result = RetTrue
        /\ cat_x.ty = "Duck" =>
                (cat_result = RetTrue <=> cat_x.at = SequenceAttrs)

\* A value that has six of the seven attributes, __reversed__ missing.
C10_Witness ==
    /\ cat_check.c = "isTypeOfSequence"
    /\ cat_x = Duck(SequenceAttrs \ {"__reversed__"})
    /\ cat_result = RetFalse
    /\ cat_error.kind = "CallArgTypeCheckViolation"

\* The value bound to the only parameter of the function.
TheArg == BoundValues(1)[1]
TheParam == _DeclFuncParam(0, func.parameters[1].name)

\* C11: for p: Sequence[int], a tuple and a str are taken as sequences whose
\* elements are then checked: a tuple of ints is admitted and returned
\* unchanged, and a str is rejected with an each-element violation at index
\* 0 that reports its first character.
C11_TupleAndStrAreSequences ==
    (func = deco_1_params_annot_Sequence_int /\ HasBound /\ CallOver) =>
        /\ (/\ TheArg.ty = "tuple"
            /\ \A j \in 1..Len(TheArg.el) : TheArg.el[j].ty = "int") =>
                (pc = "returned" /\ ret = TheArg)
        /\ (TheArg.ty = "str" /\ TheArg.el # <<>>) =>
                /\ pc = "raised"
                /\ raised.kind = "CallArgEachCheckViolation"
                /\ raised.idx_within_sequence = 0
                /\ raised.value_within_sequence = PyStr(<<TheArg.el[1]>>)

\* C12: a function with a parameter annotated with the bare Sequence type
\* registers, the parameter compiling to the single check
\* isTypeEqualTo(Sequence); a list, a tuple or a str is admitted and returned
\* unchanged; an int or an instance of an unrelated class raises a type
\* violation whose failed check is that check.
C12_BareSequenceRegisters ==
    (func = deco_1_params_annot_Sequence /\ pc # "import") =>
        /\ pc # "reg_failed"
        /\ ChecksOf(1) = <<isTypeEqualTo(BareSequence)>>
        /\ (HasBound /\ CallOver) =>
            /\ TheArg.ty \in {"list", "tuple", "str"} =>
                    (pc = "returned" /\ ret = TheArg)
            /\ TheArg.ty \in {"int", "MyClass"} =>
                    /\ pc = "raised"
                    /\ raised.kind = "CallArgTypeCheckViolation"
                    /\ raised.check_that_failed = isTypeEqualTo(BareSequence)

\* A list or tuple of numbers.
IsNumberSeq(x) ==
    x.ty \in {"list", "tuple"} /\ \A j \in 1..Len(x.el) : IsNumber(x.el[j])

\* C13: for a sequence s of comparable elements, isMonotonicIncr.is_valid(s)
\* passes if and only if len(s) <= 1 or every adjacent pair satisfies
\* s[i+1] > s[i]; a sequence with two equal or decreasing neighbours
\* anywhere fails.
C13_StrictlyIncreasing ==
    (cat_result # NoResult /\ cat_check = isMonotonicIncr
     /\ IsNumberSeq(cat_x)) =>
        /\ cat_result \in {RetTrue, RetFalse}
        /\ cat_result = RetTrue <=>
            \/ Len(cat_x.el) <= 1
            \/ \A i \in 1..(Len(cat_x.el) - 1) :
                    cat_x.el[i + 1].n > cat_x.el[i].n

\* C14: for an inner check c that is not itself an each-check and a finite
\* sequence s, eachAll(c).is_valid(s) passes if and only if c passes on every
\* element; when c fails on an element, the outcome names the smallest index
\* at which c does not pass and the element there, whatever the elements
\* after it are, and the error built from it is an each-element violation
\* with that index and element.
C14_EachAllFirstFailure ==
    (/\ cat_result # NoResult
     /\ cat_check.c = "eachAll"
     /\ cat_check.check_applied_to_each.c # "eachAll"
     /\ Iterable(cat_x)) =>
        LET c == cat_check.check_applied_to_each
            s == Elems(cat_x)
            bad == {i \in 1..Len(s) : is_valid(c, s[i]) # RetTrue}
            i == CHOOSE i \in bad : \A j \in bad : i <= j
        IN /\ cat_result = RetTrue <=> bad = {}
           /\ (bad # {} /\ is_valid(c, s[i]) = RetFalse) =>
                /\ cat_result = RetDict(i - 1, s[i])
                /\ cat_error = CallArgEachCheckViolation(
                        CatParam, _FuncCallArg(Idx(0), cat_x), cat_check,
                        i - 1, s[i])

\* eachAll(isTypeEqualTo(int)) on [1, 2, "x"]
C14_Witness ==
    /\ cat_check = eachAll(isTypeEqualTo(Class("int")))
    /\ cat_x = PyList(<<PyInt(1), PyInt(2), PyStr(<<24>>)>>)
    /\ cat_result = RetDict(2, PyStr(<<24>>))
    /\ cat_error.kind = "CallArgEachCheckViolation"

\* The argument of the call as the errors describe it.
TheCallArg ==
    _FuncCallArg(IF supplied.kwd # <<>> THEN Kwd("p") ELSE Idx(0), TheArg)

\* C15: isPositive passes if and only if v > 0.  For p: Annotated[int,
\* isPositive] every positive int is admitted, and 0 and every negative int
\* are rejected with a value violation that names isPositive; a value that
\* cannot be compared with 0 yields a checking-execution error, not a
\* violation.
C15_Positive ==
    (HasBound /\ CallOver) =>
        /\ (func = deco_1_params_annot_int_isPositive /\ TheArg.ty = "int") =>
            IF TheArg.n > 0
            THEN pc = "returned" /\ ret = TheArg
            ELSE /\ pc = "raised"
                 /\ raised = CallArgValueCheckViolation(TheParam, TheCallArg,
                                                        isPositive)
        /\ func = deco_1_params_annot_object(isPositive) =>
            IF IsNumber(TheArg)
            THEN IF TheArg.n > 0
                 THEN pc = "returned" /\ ret = TheArg
                 ELSE /\ pc = "raised"
                      /\ raised = CallArgValueCheckViolation(
                                      TheParam, TheCallArg, isPositive)
            ELSE /\ pc = "raised"
                 /\ raised = CallArgCheckExecutionError(
                                 TheParam, TheCallArg, isPositive,
                                 "x > 0", TheArg)

\* f(-1) for p: Annotated[int, isPositive]
C15_Witness ==
    /\ func = deco_1_params_annot_int_isPositive
    /\ pc = "raised"
    /\ supplied = [pos |-> <<PyInt(0 - 1)>>, kwd |-> <<>>]
    /\ raised.kind = "CallArgValueCheckViolation"
    /\ raised.check_that_failed = isPositive

\* C16: isNotEmpty passes if and only if len(v) > 0 and fails with a value
\* violation for every value of length 0; for a value whose length cannot
\* be computed the outcome is a checking-execution error, never a value
\* violation and never a pass.
C16_NotEmpty ==
    (HasBound /\ CallOver /\ func = deco_1_params_annot_object(isNotEmpty)) =>
        IF HasLen(TheArg)
        THEN IF Len(TheArg.el) > 0
             THEN pc = "returned" /\ ret = TheArg
             ELSE /\ pc = "raised"
                  /\ raised = CallArgValueCheckViolation(
                                  TheParam, TheCallArg, isNotEmpty)
        ELSE /\ pc = "raised"
             /\ raised = CallArgCheckExecutionError(
                             TheParam, TheCallArg, isNotEmpty,
                             "len(x)", TheArg)

\* f(1) for p: Annotated[object, isNotEmpty]
C16_Witness ==
    /\ func = deco_1_params_annot_object(isNotEmpty)
    /\ pc = "raised"
    /\ supplied = [pos |-> <<PyInt(1)>>, kwd |-> <<>>]
    /\ raised.kind = "CallArgCheckExecutionError"
    /\ raised.operation_that_failed = "len(x)"

\* The operations that the checks report when they cannot be evaluated.
FailedOperations == {"len(x)", "x > 0", "x[i+1] > x[i]", "for elem in x"}

\* C17: when the evaluation of a check itself fails (no length, no
\* comparison, no indexing, no iteration), the caller receives a
\* checking-execution error that carries the declared parameter, the
\* offending argument, the check that was executing, the operation that
\* failed and the value that caused the failure; the internal error of the
\* checks never leaves the wrapper and is never reported as a violation.
C17_ExecutionError ==
    /\ raised.kind \in CallErrorKinds \cup {"none"}
    /\ (HasBound /\ CallOver /\ NonPass # {}
        /\ TripleOutcome(FirstNonPass).r = "_InternalExecutionError") =>
            LET t == FirstNonPass
                o == TripleOutcome(t)
            IN /\ pc = "raised"
               /\ raised = CallArgCheckExecutionError(
                        _DeclFuncParam(t[1] - 1, func.parameters[t[1]].name),
                        TheCallArg, ChecksOf(t[1])[t[3]],
                        o.operation_that_failed,
                        o.value_that_caused_failure)
               /\ raised.operation_that_failed \in FailedOperations
    /\ (pc = "raised" /\ raised.kind = "CallArgCheckExecutionError") =>
            Last(evaluated).outcome.r = "_InternalExecutionError"

\* f(["x"]) for p: Annotated[object, eachAll(isPositive)]: the comparison
\* of the element fails while the each-check is executing.
C17_Witness ==
    /\ func = deco_1_params_annot_object(eachAll(isPositive))
    /\ pc = "raised"
    /\ raised.kind = "CallArgCheckExecutionError"
    /\ raised.during_check = eachAll(isPositive)
    /\ raised.operation_that_failed = "x > 0"
    /\ raised.value_that_caused_failure = PyStr(<<24>>)
    /\ TheArg = PyList(<<PyStr(<<24>>)>>)

\* C18: a check that returns a non-pass outcome is translated into the
\* violation of its category and no other: a type check raises a type
\* violation, isNotEmpty, isMonotonicIncr and isPositive raise a value
\* violation, and eachAll raises an each-element violation even over a type
\* check; the violation carries the declared parameter (ordinal and name),
\* the offending argument and the check that failed.
C18_ViolationKinds ==
    (HasBound /\ CallOver /\ NonPass # {}
     /\ TripleOutcome(FirstNonPass).r \in {"False", "dict"}) =>
        LET t == FirstNonPass
            check == ChecksOf(t[1])[t[3]]
        IN /\ pc = "raised"
           /\ raised.kind =
                CASE check.c \in {"isTypeEqualTo", "isTypeOfSequence"} ->
                        "CallArgTypeCheckViolation"
                  [] check.c \in {"isNotEmpty", "isMonotonicIncr",
                                  "isPositive"} ->
                        "CallArgValueCheckViolation"
                  [] check.c = "eachAll" -> "CallArgEachCheckViolation"
           /\ raised.param =
                _DeclFuncParam(t[1] - 1, func.parameters[t[1]].name)
           /\ raised.arg_that_caused_failure.val = BoundValues(t[1])[t[2]]
           /\ raised.check_that_failed = check

\* f([1, "x"]) for p: Sequence[int]
C18_Witness ==
    /\ func = deco_1_params_annot_Sequence_int
    /\ pc = "raised"
    /\ raised.kind = "CallArgEachCheckViolation"
    /\ raised.check_that_failed = eachAll(isTypeEqualTo(Class("int")))
    /\ raised.param = _DeclFuncParam(0, "p")
    /\ raised.arg_that_caused_failure.val =
            PyList(<<PyInt(1), PyStr(<<24>>)>>)

\* The extras of an Annotated in declared order, nested lists and tuples
\* flattened depth first, a check class replaced by its instance.
RECURSIVE FlatExtras(_)
FlatExtras(items) ==
    IF items = <<>> THEN <<>>
    ELSE LET m == Head(items)
         IN (IF IsListOrTuple(m) THEN FlatExtras(m.items)
             ELSE IF IsClassObject(m) THEN <<[c |-> m.name]>>
             ELSE <<m>>) \o FlatExtras(Tail(items))

\* C19: the checks of Annotated[base, extras...] are the checks of the base
\* followed by the flattened extras, for every depth of nesting of Annotated
\* and of lists of extras; the result of a compilation is a flat sequence
\* whose every element is one check, and type checks come before value
\* checks.
C19_FlatBaseThenExtras ==
    pc = "idle" =>
        LET annot == func.parameters[1].annotation
            checks == ChecksOf(1)
        IN /\ annot.k = "Annotated" =>
                checks =
                    _eval_PEP_484_param_annot(func.name, 0, "p",
                                              annot.origin).checks
                    \o FlatExtras(annot.metadata)
           /\ \A i \in 1..Len(checks) :
                /\ DOMAIN checks[i] \subseteq
                        {"c", "type_declared", "check_applied_to_each"}
                /\ checks[i].c \in TypeCheckKinds \cup ValueCheckKinds
           /\ \A i, j \in 1..Len(checks) :
                (i < j /\ checks[j].c \in TypeCheckKinds) =>
                    checks[i].c \in TypeCheckKinds

\* Annotated[Annotated[Annotated[int, isNotEmpty], [isMonotonicIncr]],
\*           isPositive, [isNotEmpty, eachAll(isPositive)]]
C19_Witness ==
    /\ pc = "idle"
    /\ func.parameters[1].annotation =
        Annotated(Annotated(Annotated(Class("int"), <<isNotEmpty>>),
                            <<MetaList(<<isMonotonicIncr>>)>>),
                  <<isPositive,
                    MetaList(<<Class("isNotEmpty"), eachAll(isPositive)>>)>>)
    /\ ChecksOf(1) =
        <<isTypeEqualTo(Class("int")), isNotEmpty, isMonotonicIncr,
          isPositive, isNotEmpty, eachAll(isPositive)>>

\* The parameters whose annotation is neither a class, nor an Annotated,
\* nor a Sequence.
UnrecognisedParams ==
    {i \in 1..Len(func.parameters) : func.parameters[i].annotation.k = "str"}

\* A function whose registration failed has no wrapper: no call was made.
C20_NoCall ==
    /\ supplied = NoCall
    /\ bound_arguments = NoArguments
    /\ evaluated = <<>>
    /\ raised = NoError
    /\ received = <<>>

C20_FailsAtRegistration ==
    (pc # "import" /\ UnrecognisedParams # {}) =>
        LET i == CHOOSE i \in UnrecognisedParams :
                    \A j \in UnrecognisedParams : i <= j
        IN /\ pc = "reg_failed"
           /\ reg_error.kind = "AnnotationCompilationError"
           /\ reg_error.param = _DeclFuncParam(i - 1, func.parameters[i].name)
           /\ reg_error.annotation = func.parameters[i].annotation
           /\ C20_NoCall

C20_OnlyAtRegistration ==
    /\ pc # "reg_failed"
    /\ (arg_checks_for_one_decl' # arg_checks_for_one_decl
        \/ reg_error' # reg_error) => (pc = "import" /\ C20_NoCall)

\* C20: the annotations are compiled once, when validate_call registers the
\* function, and never during a call.  If the annotation of a parameter is
\* neither a class, nor an Annotated, nor a Sequence, the registration fails
\* with a compilation error that names the parameter (ordinal and name) and
\* the annotation, and no wrapper exists, so no call of the function comes
\* before the error or gets around it.
C20_CompileOnceAtRegistration ==
    []C20_FailsAtRegistration /\ [][C20_OnlyAtRegistration]_vars

\* def f(p_1: int, p_2: 'int') fails to register on its second parameter.
C20_Witness ==
    /\ pc = "reg_failed"
    /\ func = deco_2_params_unrecognised_annot
    /\ reg_error.param = _DeclFuncParam(1, "p_2")
    /\ reg_error.annotation = StrAnnot("int")

\* ------------------------------------------------------------------------
\* C21: eachAll(c) wraps c when c is a check instance and wraps a
\* default-constructed instance when c is a check class that can be built
\* without arguments; with any other argument, a class that is no check
\* class or a value that is no class at all, the construction raises
\* AnnotationConstructionError holding the check type eachAll and the file
\* and line of the code that wrote the construction.
\* ------------------------------------------------------------------------
IsCheckClass(x) == IsClassObject(x) /\ x.name \in CheckClasses
CtorDone == ctor_result # NoResult

C21_ConstructionError ==
    CtorDone =>
        /\ IsCheckInstance(ctor_arg) =>
              /\ ctor_result.ok
              /\ ctor_result.self = eachAll(ctor_arg)
        /\ (IsClassObject(ctor_arg)
               /\ ctor_arg.name \in DefaultConstructible) =>
              /\ ctor_result.ok
              /\ ctor_result.self = eachAll([c |-> ctor_arg.name])
        /\ (~IsCheckInstance(ctor_arg) /\ ~IsCheckClass(ctor_arg)) =>
              /\ ~ctor_result.ok
              /\ ctor_result.err.kind = "AnnotationConstructionError"
              /\ ctor_result.err.check_type = Class("eachAll")
              /\ ctor_result.err.calling_location = Head(ctor_location)

\* ------------------------------------------------------------------------
\* C22: once the decorator has returned, no call changes the compiled
\* checks (the parameters, their check sequences, the checks themselves),
\* which stay what the compilation of the annotations gave; and a call made
\* with the arguments of an earlier call, however many calls lie between
\* the two, ends like the earlier one: same return or same error with the
\* same attributes.
\* ------------------------------------------------------------------------
C22_TableAsCompiled ==
    pc \notin {"import", "reg_failed"} =>
        arg_checks_for_one_decl = _ArgChecksForOneFuncDecl(func).checks

C22_TableUntouched ==
    pc # "import" => arg_checks_for_one_decl' = arg_checks_for_one_decl

C22_SameOutcome ==
    (/\ pc \in {"returned", "raised"}
     /\ remembered # NoResult
     /\ remembered.supplied = supplied) => remembered.outcome = Outcome

C22_Idempotent ==
    [](C22_TableAsCompiled /\ C22_SameOutcome) /\ [][C22_TableUntouched]_vars

C22_Witness ==
    /\ pc = "raised"
    /\ raised.kind \in ViolationKinds
    /\ remembered # NoResult
    /\ remembered.supplied = supplied
    /\ remembered.later >= 1
    /\ remembered.outcome = Outcome

\* ------------------------------------------------------------------------
\* C23: however the steps of concurrent calls of the same or of different
\* wrappers interleave, a call that is over has returned what, or raised
\* the error with the attributes that, the same call made alone returns or
\* raises; and no step of a call changes the frame of another call or the
\* compiled checks.
\* ------------------------------------------------------------------------
\* the end of the call f(*pos, **kwd) when no other call runs
Alone(f, pos, kwd) ==
    LET b == Signature_bind(f.parameters, pos, kwd)
    IN IF ~b.ok
       THEN [pc |-> "raised", raised |-> CallArgBindingRejection(b.args),
             ret |-> PyNone]
       ELSE LET bound == apply_defaults(f.parameters, b.arguments)
                ev == Evaluations(_ArgChecksForOneFuncDecl(f).checks,
                                  bound, kwd)
                fails == {i \in 1..Len(ev) :
                            ~Passed(is_valid(ev[i].check, ev[i].bound_arg))}
            IN IF fails = {}
               THEN [pc |-> "returned", raised |-> NoError,
                     ret |-> FuncBody(f, pos, kwd)]
               ELSE LET i == CHOOSE k \in fails : \A j \in fails : k <= j
                    IN [pc |-> "raised",
                        raised |-> ErrorOfOutcome(
                            ev[i], is_valid(ev[i].check, ev[i].bound_arg)),
                        ret |-> PyNone]

C23_AsAlone ==
    \A t \in DOMAIN threads :
        threads[t].pc \in {"returned", "raised"} =>
            [pc |-> threads[t].pc, raised |-> threads[t].raised,
             ret |-> threads[t].ret]
            = Alone(ConcFunc(threads[t].func), threads[t].supplied.pos,
                    threads[t].supplied.kwd)

C23_OwnFrameOnly ==
    /\ tables' = tables
    /\ \A t, u \in DOMAIN threads :
          (t # u /\ threads'[t] # threads[t]) => threads'[u] = threads[u]

C23_NoInterference == []C23_AsAlone /\ [][C23_OwnFrameOnly]_vars

C23_Witness ==
    /\ DOMAIN threads = 1..NumThreads
    /\ threads[1].pc = "raised"
    /\ threads[1].raised.kind = "CallArgEachCheckViolation"
    /\ threads[2].pc = "check"
    /\ threads[2].func = threads[1].func
    /\ threads[2].supplied # threads[1].supplied

\* ------------------------------------------------------------------------
\* C24: a caller can catch at any level.  "except CallArgCheckViolation"
\* catches every type, value and each-check violation; "except
\* CallArgCheckException" catches every violation and every
\* CallArgCheckExecutionError; "except ArgCheckException" catches every
\* error of the package.  "except CallArgCheckException" lets binding
\* rejections, compilation errors and construction errors through, and
\* "except CallArgCheckViolation" lets a CallArgCheckExecutionError through.
\* ------------------------------------------------------------------------
PackageErrors ==
    ViolationKinds
    \cup {"CallArgCheckViolation", "CallArgCheckExecutionError",
          "CallArgCheckException", "CallArgBindingRejection",
          "AnnotationCompilationError", "AnnotationConstructionError"}
Caught == exc_caught = [r |-> "caught"]
Propagated == exc_caught = [r |-> "propagated"]

C24_SpecificityOrder ==
    exc_caught # NoResult =>
        /\ (exc_raised \in ViolationKinds
               /\ exc_handler = "CallArgCheckViolation") => Caught
        /\ (exc_raised \in ViolationKinds
                              \cup {"CallArgCheckViolation",
                                    "CallArgCheckExecutionError"}
               /\ exc_handler = "CallArgCheckException") => Caught
        /\ (exc_raised \in PackageErrors
               /\ exc_handler = "ArgCheckException") => Caught
        /\ (exc_raised \in {"CallArgBindingRejection",
                             "AnnotationCompilationError",
                             "AnnotationConstructionError"}
               /\ exc_handler = "CallArgCheckException") => Propagated
        /\ (exc_raised = "CallArgCheckExecutionError"
               /\ exc_handler = "CallArgCheckViolation") => Propagated

C24_Witness ==
    /\ exc_raised = "CallArgEachCheckViolation"
    /\ exc_handler = "CallArgCheckException"
    /\ Caught

\* ------------------------------------------------------------------------
\* C25: the checks of a *args parameter are applied to each positional
\* argument it collected, and those of a **kwargs parameter to each keyword
\* value it collected, one value at a time and never to the tuple or dict;
\* nothing is evaluated for a parameter that collected nothing; and the
\* error of a failing collected value carries that value as the offending
\* argument.
\* ------------------------------------------------------------------------
VariadicParams ==
    {i \in 1..Len(func.parameters) :
        func.parameters[i].kind \in {VAR_POSITIONAL, VAR_KEYWORD}}

\* The values that the i-th parameter, a variadic one, collects from the
\* arguments as the caller wrote them.
Collected(i) ==
    LET ps == func.parameters
        positional == {j \in 1..Len(ps) :
                         ps[j].kind \in {POSITIONAL_ONLY,
                                         POSITIONAL_OR_KEYWORD}}
        named == {ps[j].name : j \in {k \in 1..Len(ps) :
                     ps[k].kind \in {POSITIONAL_OR_KEYWORD, KEYWORD_ONLY}}}
        Extra(a) == a.kw \notin named
        extras == SelectSeq(supplied.kwd, Extra)
    IN IF ps[i].kind = VAR_POSITIONAL
       THEN SubSeq(supplied.pos, Cardinality(positional) + 1,
                   Len(supplied.pos))
       ELSE [j \in 1..Len(extras) |-> extras[j].val]

EvaluationsOf(i) ==
    {k \in 1..Len(evaluated) : evaluated[k].param_idx = i - 1}

C25_VariadicEachValue ==
    HasBound =>
      \A i \in VariadicParams :
        /\ \A k \in EvaluationsOf(i) :
              /\ evaluated[k].val_idx + 1 \in 1..Len(Collected(i))
              /\ evaluated[k].bound_arg
                    = Collected(i)[evaluated[k].val_idx + 1]
              /\ evaluated[k].check
                    = ChecksOf(i)[evaluated[k].check_idx + 1]
        /\ Collected(i) = <<>> => EvaluationsOf(i) = {}
        /\ pc = "returned" =>
              \A j \in 1..Len(Collected(i)), c \in 1..Len(ChecksOf(i)) :
                \E k \in EvaluationsOf(i) :
                    /\ evaluated[k].val_idx = j - 1
                    /\ evaluated[k].check_idx = c - 1
        /\ (pc = "raised" /\ raised.param.idx = i - 1) =>
              /\ raised.arg_that_caused_failure.val
                    = Collected(i)[Last(evaluated).val_idx + 1]
              /\ ~Passed(is_valid(ChecksOf(i)[Last(evaluated).check_idx + 1],
                                  raised.arg_that_caused_failure.val))

\* The second of two positional arguments of f(*args) is not positive.
C25_Witness ==
    /\ func = deco_variadic
    /\ pc = "raised"
    /\ supplied.pos = <<PyInt(1), PyInt(0)>>
    /\ raised.kind = "CallArgValueCheckViolation"
    /\ raised.arg_that_caused_failure.val = PyInt(0)
    /\ Len(evaluated) = 4

\* ------------------------------------------------------------------------
\* C26: for a parameter that is neither *args nor **kwargs, the argument
\* descriptor of the error raised holds the keyword exactly when the caller
\* supplied the value of that parameter by keyword, and the positional index
\* of the value when the caller supplied it by position; also when a
\* positional-only parameter gets its value by position while **kwargs
\* collects a keyword of the same name.
\* ------------------------------------------------------------------------
RaisedByCheck ==
    /\ pc = "raised"
    /\ raised.kind \in ViolationKinds \cup {"CallArgCheckExecutionError"}
RaisedParam == raised.param.idx + 1
RaisedDescriptor == raised.arg_that_caused_failure.idx_or_kwd

\* The caller wrote name=value for the i-th parameter, which can take it.
SuppliedByKeyword(i) ==
    /\ func.parameters[i].kind \in {POSITIONAL_OR_KEYWORD, KEYWORD_ONLY}
    /\ InKwargs(func.parameters[i].name, supplied.kwd)

\* The i-th parameter took the i-th positional argument.
SuppliedByPosition(i) ==
    /\ i <= Len(supplied.pos)
    /\ \A j \in 1..i :
          func.parameters[j].kind \in {POSITIONAL_ONLY, POSITIONAL_OR_KEYWORD}

C26_KeywordOrIndex ==
    (RaisedByCheck /\ RaisedParam \notin VariadicParams) =>
        /\ RaisedDescriptor = Kwd(func.parameters[RaisedParam].name)
              <=> SuppliedByKeyword(RaisedParam)
        /\ SuppliedByPosition(RaisedParam)
              => RaisedDescriptor = Idx(RaisedParam - 1)

\* ------------------------------------------------------------------------
\* C27: the argument descriptor of an error about a value collected by
\* **kwargs holds the keyword the caller wrote for that value, and the one of
\* an error about a value collected by *args holds the position of that
\* value among the positional arguments of the call, so that two elements
\* of *args are never reported with the same index.
\* ------------------------------------------------------------------------
\* the keywords collected by **kwargs, in the order of the call
CollectedKeywords ==
    LET ps == func.parameters
        named == {ps[j].name : j \in {k \in 1..Len(ps) :
                     ps[k].kind \in {POSITIONAL_OR_KEYWORD, KEYWORD_ONLY}}}
        Extra(a) == a.kw \notin named
        extras == SelectSeq(supplied.kwd, Extra)
    IN [j \in 1..Len(extras) |-> extras[j].kw]

C27_VariadicDescriptor ==
    (RaisedByCheck /\ RaisedParam \in VariadicParams) =>
        LET k == Last(evaluated).val_idx + 1
        IN IF func.parameters[RaisedParam].kind = VAR_KEYWORD
           THEN RaisedDescriptor = Kwd(CollectedKeywords[k])
           ELSE RaisedDescriptor
                  = Idx(Len(supplied.pos) - Len(Collected(RaisedParam))
                        + k - 1)

\* ------------------------------------------------------------------------
\* C28: an extra of Annotated compiles to itself when it is a value-check
\* instance, to a default-constructed instance when it is a value-check
\* class (isNotEmpty, isMonotonicIncr, isPositive, eachAll), and to the
\* checks of its items, flattened in order, when it is a list or tuple; any
\* other extra (a value that is no check, a class that is no value-check
\* class, a type-check instance) makes the registration fail with
\* AnnotationCompilationError naming the parameter and that extra; and
\* compiling extras raises no error of another kind.
\* ------------------------------------------------------------------------
RECURSIVE Leaves(_)
Leaves(items) ==
    IF items = <<>> THEN <<>>
    ELSE (IF IsListOrTuple(Head(items)) THEN Leaves(Head(items).items)
          ELSE <<Head(items)>>) \o Leaves(Tail(items))

ValidExtra(m) ==
    \/ IsCheckInstance(m) /\ m.c \in ValueCheckKinds
    \/ IsClassObject(m) /\ m.name \in ValueCheckKinds

C28_ExtrasCompile ==
    LET annot == func.parameters[1].annotation
    IN (pc \in {"idle", "reg_failed"} /\ annot.k = "Annotated") =>
        LET leaves == Leaves(annot.metadata)
            bad == {i \in 1..Len(leaves) : ~ValidExtra(leaves[i])}
            base == _eval_PEP_484_param_annot(func.name, 0, "p",
                                              annot.origin)
        IN IF bad = {}
           THEN /\ pc = "idle"
                /\ ChecksOf(1) =
                     base.checks
                     \o [i \in 1..Len(leaves) |->
                            IF IsClassObject(leaves[i])
                            THEN [c |-> leaves[i].name] ELSE leaves[i]]
           ELSE /\ pc = "reg_failed"
                /\ reg_error.kind = "AnnotationCompilationError"
                /\ reg_error.param = _DeclFuncParam(0, "p")
                /\ reg_error.annotation =
                     leaves[CHOOSE i \in bad : \A j \in bad : i <= j]

\* ------------------------------------------------------------------------
\* C29: for every inner check c, an each-check included, eachAll(c) on an
\* iterable s passes if and only if c passes on every element of s, and it
\* fails at the smallest index whose element c does not pass, whether c
\* answers False or a dict of context there; so
\* eachAll(eachAll(isTypeEqualTo(int))) fails on [[1, "x"]] at index 0.
\* ------------------------------------------------------------------------
C29_NestedEachAll ==
    (/\ cat_result # NoResult
     /\ cat_check.c = "eachAll"
     /\ Iterable(cat_x)) =>
        LET c == cat_check.check_applied_to_each
            s == Elems(cat_x)
            bad == {i \in 1..Len(s) : is_valid(c, s[i]) # RetTrue}
            i == CHOOSE i \in bad : \A j \in bad : i <= j
        IN /\ cat_result = RetTrue <=> bad = {}
           /\ (bad # {} /\ is_valid(c, s[i]).r \in {"False", "dict"}) =>
                cat_result = RetDict(i - 1, s[i])

\* ------------------------------------------------------------------------
\* C30: every check name that argcheck/__init__.py imports from the check
\* catalogue is found in checks.py when the import reaches it, so "import
\* argcheck" raises no error, and once it is over the names a client looks up in the package
\* (validate_call, Annotated, the checks, the exception classes, the
\* submodule exceptions) are bound in it.
\* ------------------------------------------------------------------------
C30_PackageImports ==
    /\ import_error = NoError
    /\ import_pos.stmt > Len(ImportStatements) => wanted \subseteq namespace

====
